---- MODULE Spec2Model ----
(***************************************************************************)
(* fastpopular: concurrent counting of chess positions read from pgn files. *)
(* The model follows src/fastpopular.cpp (Analyze visitor, ana_files,       *)
(* process, main) and src/fastpopular.hpp (split_chunks).                   *)
(***************************************************************************)
EXTENDS Integers, Sequences, FiniteSets, TLC

(* ------------------------------ bounds --------------------------------- *)
\* number of pgn files in the file list
MaxFiles == 2
\* games in the whole corpus, over all files
MaxGames == 2
\* moves the parser delivers per game
MaxMoves == 2
\* number of distinct positions (hashes) a move can lead to
NKeys == 3
\* number of values the command-line counters (minCount, maxPlies) range over
MaxOpt == 2
\* entries of the file list in the runs that check the list, length of a path,
\* number of distinct characters in the paths
MaxPaths == 3
MaxPathLen == 2
NChars == 2
\* files in the runs whose chunks hold more than one file
ChunkFiles == 5
\* files in the longest list handed to the planner
MaxList == 9
\* files of a run with metadata
MetaFiles == 3
\* files of a run under fair scheduling
LiveFiles == 3

(* ------------------------- program constants --------------------------- *)
\* An unsigned int has 32 bits and is written as its two digits to the base
\* 65536, the high one first: <<h, l>> is the number 65536 * h + l.
\* std::numeric_limits<unsigned int>::max(), the value count_stop_early gets
\* without --stopEarly, is 4294967295 = 65536 * 65535 + 65535
UINT_MAX == <<65535, 65535>>

\* the unsigned int that an int is converted to: the int itself when it is not
\* negative, 4294967296 more when it is
Unsigned(i) ==
  IF i >= 0 THEN <<i \div 65536, i % 65536>>
  ELSE <<65535 - ((0 - (i + 1)) \div 65536), 65535 - ((0 - (i + 1)) % 65536)>>

\* u <= v for two unsigned ints
LessEq(u, v) == u[1] < v[1] \/ (u[1] = v[1] /\ u[2] <= v[2])

\* the number an unsigned int below 2147483648 holds
ValueOf(u) == 65536 * u[1] + u[2]

\* the piece count of the standard start position
StartPieces == 32

Keys == 1..NKeys
Workers == 1..2
Files == 1..MaxFiles

(* -------------------------------- texts -------------------------------- *)
\* a std::string or std::string_view is a string; Ch(s, i) is its i-th character
\* and "" when it has none; Sub(s, i, j) is s.substr(i - 1, j - i + 1)
Sub(s, i, j) ==
  IF i < 1 \/ i > j \/ i > Len(s) THEN ""
  ELSE SubSeq(s, i, IF j > Len(s) THEN Len(s) ELSE j)

Ch(s, i) == Sub(s, i, i)

Min(a, b) == IF a < b THEN a ELSE b

\* the characters with a graphic, in the order of their codes: from the blank
\* (32) to "_" (95) and from "a" (97) to "~" (126)
UpTo95 == " !\"#$%&'()*+,-./0123456789:;<=>?@ABCDEFGHIJKLMNOPQRSTUVWXYZ[\\]^_"
From97 == "abcdefghijklmnopqrstuvwxyz{|}~"

\* the place of a character in a text that holds it
Place(text, c) == CHOOSE i \in 1..Len(text) : Ch(text, i) = c

\* the control characters in the order of their codes, from 1 to 31, and the
\* character with the code 127
Controls == "\t\n\f\r"
DEL == ""

\* the character with the code n; no text of the model holds the characters
\* with the codes 0 and 96
CharAt(n) ==
  IF n < 32 THEN Ch(Controls, n)
  ELSE IF n < 96 THEN Ch(UpTo95, n - 31)
  ELSE IF n < 127 THEN Ch(From97, n - 96)
  ELSE DEL

CharCodes == (1..127) \ {96}

\* the code of each character
CharCode ==
  [c \in {CharAt(n) : n \in CharCodes} |-> CHOOSE n \in CharCodes : CharAt(n) = c]

Code(c) == CharCode[c]

\* std::isspace and std::isdigit in the "C" locale
isspace(c) == c \in {" ", "\t", "\n", CharAt(11), "\f", "\r"}
isdigit(c) == c \in {"0", "1", "2", "3", "4", "5", "6", "7", "8", "9"}

\* the value of a decimal digit
DigitValue(c) == Place("0123456789", c) - 1

\* std::to_string(int)
RECURSIVE Digits(_)
Digits(n) ==
  IF n < 10 THEN Ch("0123456789", n + 1)
  ELSE Digits(n \div 10) \o Ch("0123456789", (n % 10) + 1)

to_string(n) == IF n < 0 THEN "-" \o Digits(0 - n) ELSE Digits(n)

\* the number a text of decimal digits stands for
RECURSIVE Number(_)
Number(digits) ==
  IF digits = "" THEN 0
  ELSE 10 * Number(Sub(digits, 1, Len(digits) - 1))
       + DigitValue(Ch(digits, Len(digits)))

\* the first place of a text from i on that holds no white space
RECURSIVE SkipSpace(_, _)
SkipSpace(text, i) ==
  IF i <= Len(text) /\ isspace(Ch(text, i)) THEN SkipSpace(text, i + 1) ELSE i

\* the digits of a text from place i on, the number read so far being -acc: the
\* number, or std::out_of_range when it is no int
RECURSIVE StrtolDigits(_, _, _, _)
StrtolDigits(text, i, acc, negative) ==
  IF i > Len(text) \/ ~isdigit(Ch(text, i))
  THEN [thrown |-> "", value |-> IF negative THEN acc ELSE 0 - acc]
  ELSE LET d == DigitValue(Ch(text, i))
           last == IF negative THEN 8 ELSE 7
       IN IF acc < 0 - 214748364 \/ (acc = 0 - 214748364 /\ d > last)
          THEN [thrown |-> "out_of_range", value |-> 0]
          ELSE StrtolDigits(text, i + 1, 10 * acc - d, negative)

\* std::stoi(text): white space, a sign, decimal digits; what follows the digits
\* is ignored. std::invalid_argument is thrown when there is no digit
stoi(text) ==
  LET i == SkipSpace(text, 1)
      signed == i <= Len(text) /\ Ch(text, i) \in {"+", "-"}
      j == IF signed THEN i + 1 ELSE i
  IN IF j > Len(text) \/ ~isdigit(Ch(text, j))
     THEN [thrown |-> "invalid_argument", value |-> 0]
     ELSE StrtolDigits(text, j, 0, signed /\ Ch(text, i) = "-")

\* std::stoi on an Elo tag, with the catch of Analyze::header
StoiOrZero(text) == IF stoi(text).thrown # "" THEN 0 ELSE stoi(text).value

(* ---------------------------- std::regex -------------------------------- *)
\* std::regex of libstdc++ with the default ECMAScript grammar, as std::regex
\* regex(text), std::regex_match and std::regex_search use it: the scanner cuts
\* the pattern into tokens, the compiler builds the automaton from the tokens
\* and throws std::regex_error for a pattern it rejects, the executor walks the
\* automaton depth first over a text. A character is handled as its code, the
\* value of a signed char; a place in a text is the number of characters
\* before it; the states of an automaton are numbered from 1 and 0 is no state.

\* the codes of the characters of a text
Codes(text) == [i \in 1..Len(text) |-> CharCode[Ch(text, i)]]

\* std::ctype<char>::tolower in the "C" locale
tolower(ch) == IF ch \in 65..90 THEN ch + 32 ELSE ch

\* the text in lower case
ToLower(text) == [i \in 1..Len(text) |-> tolower(CharCode[Ch(text, i)])]

\* regex_traits::lookup_classname: the class a name stands for, the name in
\* lower case, and "" for a name that stands for none
classnames ==
  {"d", "w", "s", "alnum", "alpha", "blank", "cntrl", "digit", "graph", "lower",
   "print", "punct", "space", "upper", "xdigit"}

lookup_classname(name) ==
  IF \E n \in classnames : Codes(n) = ToLower(name)
  THEN CHOOSE n \in classnames : Codes(n) = ToLower(name)
  ELSE ""

\* regex_traits::isctype: the character with the code ch is of the class
isctype(ch, class) ==
  CASE class \in {"d", "digit"} -> ch \in 48..57
    [] class = "w" -> ch \in 48..57 \/ ch \in 65..90 \/ ch \in 97..122 \/ ch = 95
    [] class \in {"s", "space"} -> ch \in 9..13 \/ ch = 32
    [] class = "alnum" -> ch \in 48..57 \/ ch \in 65..90 \/ ch \in 97..122
    [] class = "alpha" -> ch \in 65..90 \/ ch \in 97..122
    [] class = "blank" -> ch \in {9, 32}
    [] class = "cntrl" -> ch \in 0..31 \/ ch = 127
    [] class = "graph" -> ch \in 33..126
    [] class = "lower" -> ch \in 97..122
    [] class = "print" -> ch \in 32..126
    [] class = "punct" -> ch \in 33..47 \/ ch \in 58..64 \/ ch \in 91..96 \/ ch \in 123..126
    [] class = "upper" -> ch \in 65..90
    [] class = "xdigit" -> ch \in 48..57 \/ ch \in 65..70 \/ ch \in 97..102
    [] OTHER -> FALSE

\* the names of regex_traits::lookup_collatename, in the order of the codes of
\* the characters they stand for, from 0 on
collatenames ==
  <<"NUL", "SOH", "STX", "ETX", "EOT", "ENQ", "ACK", "alert", "backspace", "tab",
    "newline", "vertical-tab", "form-feed", "carriage-return", "SO", "SI", "DLE",
    "DC1", "DC2", "DC3", "DC4", "NAK", "SYN", "ETB", "CAN", "EM", "SUB", "ESC",
    "IS4", "IS3", "IS2", "IS1", "space", "exclamation-mark", "quotation-mark",
    "number-sign", "dollar-sign", "percent-sign", "ampersand", "apostrophe",
    "left-parenthesis", "right-parenthesis", "asterisk", "plus-sign", "comma",
    "hyphen", "period", "slash", "zero", "one", "two", "three", "four", "five",
    "six", "seven", "eight", "nine", "colon", "semicolon", "less-than-sign",
    "equals-sign", "greater-than-sign", "question-mark", "commercial-at",
    "A", "B", "C", "D", "E", "F", "G", "H", "I", "J", "K", "L", "M", "N", "O", "P",
    "Q", "R", "S", "T", "U", "V", "W", "X", "Y", "Z", "left-square-bracket",
    "backslash", "right-square-bracket", "circumflex", "underscore",
    "grave-accent", "a", "b", "c", "d", "e", "f", "g", "h", "i", "j", "k", "l",
    "m", "n", "o", "p", "q", "r", "s", "t", "u", "v", "w", "x", "y", "z",
    "left-curly-bracket", "vertical-line", "right-curly-bracket", "tilde", "DEL">>

\* regex_traits::lookup_collatename: the codes of the collating element with
\* the name, none for a name that stands for no element
lookup_collatename(name) ==
  IF \E i \in 1..Len(collatenames) : collatenames[i] = name
  THEN <<(CHOOSE i \in 1..Len(collatenames) : collatenames[i] = name) - 1>>
  ELSE <<>>

\* the value of a digit to the base 10 or 16
traits_value(c) == Place("0123456789abcdef", CharAt(tolower(Code(c)))) - 1

\* _Compiler::_M_cur_int_value: the number that the digits of val stand for to
\* the base radix, which is taken modulo 2^32 when it is returned as an int;
\* v is the number read so far as two digits to the base 65536
MulAdd(v, radix, d) ==
  <<(v[1] * radix + (v[2] * radix + d) \div 65536) % 65536, (v[2] * radix + d) % 65536>>

RECURSIVE Accumulate(_, _, _, _)
Accumulate(val, i, radix, v) ==
  IF i > Len(val) THEN v
  ELSE Accumulate(val, i + 1, radix, MulAdd(v, radix, traits_value(Ch(val, i))))

ToInt(v) == IF v[1] >= 32768 THEN (v[1] - 65536) * 65536 + v[2] ELSE v[1] * 65536 + v[2]

cur_int_value(val, radix) == ToInt(Accumulate(val, 1, radix, <<0, 0>>))

\* the char that an int is converted to
Char(n) == IF n % 256 >= 128 THEN (n % 256) - 256 ELSE n % 256

(* the scanner, _Scanner<char> *)
\* a token: its kind and its value (_M_token, _M_value), a text or, for one
\* character, its code; cur is the number of characters of the pattern read
\* with it and state the state of the scanner after it. The token "error" stands
\* for the std::regex_error the scanner throws, its value for the error code
Token(tok, val, ch, cur, state) ==
  [tok |-> tok, val |-> val, ch |-> ch, cur |-> cur, state |-> state]

ScanError(code, cur) == Token("error", code, 0, cur, "normal")

\* *_M_current after cur characters
At(re, cur) == Ch(re, cur + 1)

\* _ScannerBase::_M_ecma_spec_char, _M_token_tbl and _M_ecma_escape_tbl
ecma_spec_char == {"^", "$", "\\", ".", "*", "+", "?", "(", ")", "[", "]", "{", "}", "|"}

token_tbl(c) ==
  CASE c = "^" -> "line_begin"
    [] c = "$" -> "line_end"
    [] c = "." -> "anychar"
    [] c = "*" -> "closure0"
    [] c = "+" -> "closure1"
    [] c = "?" -> "opt"
    [] c = "|" -> "or"

\* _ScannerBase::_M_find_escape: the code an escaped character stands for, -1
\* for nullptr
find_escape(c) ==
  CASE c = "0" -> 0
    [] c = "b" -> 8
    [] c = "f" -> 12
    [] c = "n" -> 10
    [] c = "r" -> 13
    [] c = "t" -> 9
    [] c = "v" -> 11
    [] OTHER -> -1

isxdigit(c) == isctype(Code(c), "xdigit")

\* the end of the digits that start after cur characters
RECURSIVE DigitRun(_, _)
DigitRun(re, cur) ==
  IF cur < Len(re) /\ isdigit(At(re, cur)) THEN DigitRun(re, cur + 1) ELSE cur

\* the first place from cur on where the pattern holds ch, its end without one
RECURSIVE FindChar(_, _, _)
FindChar(re, cur, ch) ==
  IF cur < Len(re) /\ At(re, cur) # ch THEN FindChar(re, cur + 1, ch) ELSE cur

\* "\x" and "\u" of _M_eat_escape_ecma, with n digits to follow
eat_hex(re, cur, n, state) ==
  IF \A i \in 1..n : cur + i <= Len(re) /\ isxdigit(Ch(re, cur + i))
  THEN Token("hex_num", Sub(re, cur + 1, cur + n), 0, cur + n, state)
  ELSE ScanError("error_escape", cur)

\* the digits of a back reference end after run characters
eat_backref(re, cur, run, state) ==
  Token("backref", Sub(re, cur + 1, run), 0, run, state)

\* _Scanner::_M_eat_escape_ecma, after the "\"
eat_escape_ecma(re, cur, state, c) ==
  IF cur = Len(re) THEN ScanError("error_escape", cur)
  ELSE IF find_escape(c) >= 0 /\ (c # "b" \/ state = "in_bracket")
       THEN Token("ord_char", "", find_escape(c), cur + 1, state)
  ELSE IF c = "b" THEN Token("word_bound", "p", 0, cur + 1, state)
  ELSE IF c = "B" THEN Token("word_bound", "n", 0, cur + 1, state)
  ELSE IF c \in {"d", "D", "s", "S", "w", "W"}
       THEN Token("quoted_class", c, 0, cur + 1, state)
  ELSE IF c = "c"
       THEN (IF cur + 1 = Len(re) THEN ScanError("error_escape", cur)
             ELSE Token("ord_char", "", Code(At(re, cur + 1)), cur + 2, state))
  ELSE IF c \in {"x", "u"} THEN eat_hex(re, cur + 1, IF c = "x" THEN 2 ELSE 4, state)
  ELSE IF isdigit(c) THEN eat_backref(re, cur, DigitRun(re, cur + 1), state)
  ELSE Token("ord_char", "", Code(c), cur + 1, state)

\* _Scanner::_M_scan_normal
scan_normal(re, cur, c) ==
  IF c \notin ecma_spec_char THEN Token("ord_char", "", Code(c), cur + 1, "normal")
  ELSE IF c = "\\" THEN eat_escape_ecma(re, cur + 1, "normal", At(re, cur + 1))
  ELSE IF c = "("
       THEN (IF At(re, cur + 1) = "?"
             THEN (IF cur + 2 = Len(re) THEN ScanError("error_paren", cur)
                   ELSE IF At(re, cur + 2) = ":"
                        THEN Token("subexpr_no_group_begin", "", 0, cur + 3, "normal")
                   ELSE IF At(re, cur + 2) = "="
                        THEN Token("subexpr_lookahead_begin", "p", 0, cur + 3, "normal")
                   ELSE IF At(re, cur + 2) = "!"
                        THEN Token("subexpr_lookahead_begin", "n", 0, cur + 3, "normal")
                   ELSE ScanError("error_paren", cur))
             ELSE Token("subexpr_begin", "", 0, cur + 1, "normal"))
  ELSE IF c = ")" THEN Token("subexpr_end", "", 0, cur + 1, "normal")
  ELSE IF c = "["
       THEN (IF At(re, cur + 1) = "^"
             THEN Token("bracket_neg_begin", "", 0, cur + 2, "in_bracket")
             ELSE Token("bracket_begin", "", 0, cur + 1, "in_bracket"))
  ELSE IF c = "{" THEN Token("interval_begin", "", 0, cur + 1, "in_brace")
  ELSE IF c \notin {"]", "}"} THEN Token(token_tbl(c), "", 0, cur + 1, "normal")
  ELSE Token("ord_char", "", Code(c), cur + 1, "normal")

\* _Scanner::_M_eat_class, after "[" and ch: the name ends before the first ch,
\* found after close characters, which "]" has to follow
eat_class(re, cur, ch, close) ==
  IF close = Len(re) \/ close + 1 = Len(re) \/ At(re, close + 1) # "]"
  THEN ScanError(IF ch = ":" THEN "error_ctype" ELSE "error_collate", cur)
  ELSE Token(IF ch = "." THEN "collsymbol"
             ELSE IF ch = ":" THEN "char_class_name" ELSE "equiv_class_name",
             Sub(re, cur + 1, close), 0, close + 2, "in_bracket")

\* _Scanner::_M_scan_in_bracket
scan_in_bracket(re, cur, c) ==
  IF c = "-" THEN Token("bracket_dash", "", 0, cur + 1, "in_bracket")
  ELSE IF c = "["
       THEN (IF cur + 1 = Len(re) THEN ScanError("error_brack", cur)
             ELSE IF At(re, cur + 1) \in {".", ":", "="}
                  THEN eat_class(re, cur + 2, At(re, cur + 1),
                                 FindChar(re, cur + 2, At(re, cur + 1)))
             ELSE Token("ord_char", "", Code(c), cur + 1, "in_bracket"))
  ELSE IF c = "]" THEN Token("bracket_end", "", 0, cur + 1, "normal")
  ELSE IF c = "\\" THEN eat_escape_ecma(re, cur + 1, "in_bracket", At(re, cur + 1))
  ELSE Token("ord_char", "", Code(c), cur + 1, "in_bracket")

\* _Scanner::_M_scan_in_brace
scan_in_brace(re, cur, c) ==
  IF isdigit(c)
  THEN Token("dup_count", Sub(re, cur + 1, DigitRun(re, cur + 1)), 0,
             DigitRun(re, cur + 1), "in_brace")
  ELSE IF c = "," THEN Token("comma", "", 0, cur + 1, "in_brace")
  ELSE IF c = "}" THEN Token("interval_end", "", 0, cur + 1, "normal")
  ELSE ScanError("error_badbrace", cur)

\* _Scanner::_M_advance: the token after cur characters
advance(re, cur, state) ==
  IF cur = Len(re) THEN Token("eof", "", 0, cur, state)
  ELSE IF state = "normal" THEN scan_normal(re, cur, At(re, cur))
  ELSE IF state = "in_bracket" THEN scan_in_bracket(re, cur, At(re, cur))
  ELSE scan_in_brace(re, cur, At(re, cur))

\* the tokens of a pattern, up to the token "eof" or to the first error
RECURSIVE Scan(_, _, _)
Scan(re, tokens, t) ==
  IF t.tok \in {"eof", "error"} THEN Append(tokens, t)
  ELSE Scan(re, Append(tokens, t), advance(re, t.cur, t.state))

(* the automaton, _NFA<regex_traits<char>> *)
\* _GLIBCXX_REGEX_STATE_LIMIT
REGEX_STATE_LIMIT == 100000

\* a matcher of one character: _AnyMatcher, _CharMatcher or _BracketMatcher
NoMatcher ==
  [kind |-> "none", ch |-> 0, is_non_matching |-> FALSE, char_set |-> {},
   range_set |-> {}, class_set |-> {}, neg_class_set |-> {}, equiv_set |-> {}]

AnyMatcher == [NoMatcher EXCEPT !.kind = "any"]
CharMatcher(ch) == [NoMatcher EXCEPT !.kind = "char", !.ch = ch]
BracketMatcher(neg) == [NoMatcher EXCEPT !.kind = "bracket", !.is_non_matching = neg]

\* _BracketMatcher::_M_apply
bracket_apply(m, ch) ==
  (\/ ch \in m.char_set
   \/ \E r \in m.range_set : r[1] <= ch /\ ch <= r[2]
   \/ \E class \in m.class_set : isctype(ch, class)
   \/ tolower(ch) \in m.equiv_set
   \/ \E class \in m.neg_class_set : ~isctype(ch, class)) # m.is_non_matching

\* _State::_M_matches
matches(m, ch) ==
  IF m.kind = "any" THEN ch \notin {10, 13}
  ELSE IF m.kind = "char" THEN ch = m.ch
  ELSE bracket_apply(m, ch)

\* a state of the automaton, _State<char>
State(opcode) ==
  [opcode |-> opcode, next |-> 0, alt |-> 0, neg |-> FALSE, subexpr |-> 0,
   matcher |-> NoMatcher]

has_alt(s) == s.opcode \in {"alternative", "repeat", "subexpr_lookahead"}

(* the compiler, _Compiler<regex_traits<char>> *)
\* The compiler is the record of its tokens, the place k of the token the
\* scanner is at, the automaton nfa, the stack of state sequences, the count of
\* the groups and the stack of the open ones; err is the code of the
\* std::regex_error that was thrown ("" for none) and ret the value the last
\* step returned; matcher and last_char are those of the bracket expression
\* that is read. What a step does after an error is of no account.
Tok(c) == IF c.err = "" THEN c.toks[c.k].tok ELSE ""

Throw(c, code) == IF c.err = "" THEN [c EXCEPT !.err = code] ELSE c

\* _Compiler::_M_match_token: the token is of the kind, and the scanner goes on
match_token(c, tok) ==
  IF Tok(c) # tok THEN [c EXCEPT !.ret = FALSE]
  ELSE IF tok = "eof" THEN [c EXCEPT !.ret = TRUE]
  ELSE [c EXCEPT !.ret = TRUE, !.k = @ + 1,
                 !.err = IF c.toks[c.k + 1].tok = "error" THEN c.toks[c.k + 1].val
                         ELSE ""]

\* _M_value, the value of the token matched last, and the character of
\* _Compiler::_M_try_char
Value(c) == c.toks[c.k - 1]

TokenChar(t) == IF t.tok = "hex_num" THEN Char(cur_int_value(t.val, 16)) ELSE t.ch

\* _NFA::_M_insert_state; the state inserted last is Len(c.nfa)
insert_state(c, s) ==
  IF Len(c.nfa) >= REGEX_STATE_LIMIT
  THEN Throw([c EXCEPT !.nfa = Append(@, s)], "error_space")
  ELSE [c EXCEPT !.nfa = Append(@, s)]

\* _M_stack.push of the sequence that is the state inserted last, returning true
push_state(c) ==
  [c EXCEPT !.stack = Append(@, [start |-> Len(c.nfa), end |-> Len(c.nfa)]),
            !.ret = TRUE]

top(c) == c.stack[Len(c.stack)]
below(c) == c.stack[Len(c.stack) - 1]

\* the stack with seq in the place of its n topmost sequences
replace(c, n, seq) ==
  [c EXCEPT !.stack = Append(SubSeq(@, 1, Len(@) - n), seq), !.ret = TRUE]

\* _NFA::_M_insert_subexpr_begin
insert_subexpr_begin(c) ==
  insert_state([c EXCEPT !.subexpr_count = @ + 1,
                         !.paren_stack = Append(@, c.subexpr_count)],
               [State("subexpr_begin") EXCEPT !.subexpr = c.subexpr_count])

\* _NFA::_M_insert_subexpr_end
insert_subexpr_end(c) ==
  insert_state([c EXCEPT !.paren_stack = SubSeq(@, 1, Len(@) - 1)],
               [State("subexpr_end") EXCEPT
                  !.subexpr = c.paren_stack[Len(c.paren_stack)]])

\* _NFA::_M_insert_backref
insert_backref(c, index) ==
  insert_state(
    IF index < 0 \/ index >= c.subexpr_count
       \/ \E i \in 1..Len(c.paren_stack) : c.paren_stack[i] = index
    THEN Throw(c, "error_backref") ELSE c,
    [State("backref") EXCEPT !.subexpr = index])

\* _NFA::_M_insert_repeat
Repeat(next, alt, neg) ==
  [State("repeat") EXCEPT !.next = next, !.alt = alt, !.neg = neg]

\* _StateSeq::_M_clone: the states it copies, in the order in which it takes
\* them from its stack; seen are the states copied so far
RECURSIVE clone_order(_, _, _, _)
clone_order(nfa, end, stack, order) ==
  IF stack = <<>> THEN order
  ELSE LET u == stack[Len(stack)]
           seen == {order[j] : j \in 1..Len(order)} \cup {u}
           alts == IF has_alt(nfa[u]) /\ nfa[u].alt # 0 /\ nfa[u].alt \notin seen
                   THEN <<nfa[u].alt>> ELSE <<>>
           nexts == IF u # end /\ nfa[u].next # 0 /\ nfa[u].next \notin seen
                    THEN <<nfa[u].next>> ELSE <<>>
       IN clone_order(nfa, end, SubSeq(stack, 1, Len(stack) - 1) \o alts \o nexts,
                      Append(order, u))

\* the place in the order of the copy that stands for the state u in the end
LastIndex(order, u) ==
  CHOOSE j \in 1..Len(order) :
    order[j] = u /\ \A l \in (j + 1)..Len(order) : order[l] # u

\* the copy of the state id that a clone inserted after base states holds
Moved(order, base, id) == IF id = 0 THEN 0 ELSE base + LastIndex(order, id)

\* the state at place t of such a clone of the sequence r; the copy of the last
\* state of r gets endnext as its next state
CloneState(nfa, r, order, base, t, endnext) ==
  IF LastIndex(order, order[t]) # t THEN nfa[order[t]]
  ELSE [nfa[order[t]] EXCEPT
          !.next = IF order[t] = r.end THEN endnext ELSE Moved(order, base, @),
          !.alt = IF has_alt(nfa[order[t]]) THEN Moved(order, base, @) ELSE @]

\* The states that _M_quantifier inserts for "{...}" come in blocks, one for a
\* clone of r each. The clones that have to match ("min") follow each other. The
\* one clone of "{min,}" ("more") is followed by a repeat state that leads into
\* it again. A clone of "{min,max}" ("upto") is followed by its repeat state,
\* which leads into it or to the state exit at the end, and the sequence runs
\* from the repeat state of one block through its clone to the next block.
\* BlockState is the state at place t of a block inserted after from states.
BlockState(nfa, r, order, from, t, last, kind, exit, neg) ==
  IF t > Len(order) THEN Repeat(exit, Moved(order, from, r.start), neg)
  ELSE CloneState(nfa, r, order, from, t,
                  IF kind = "min"
                  THEN (IF last THEN 0 ELSE Moved(order, from + Len(order), r.start))
                  ELSE IF kind = "more" THEN from + Len(order) + 1
                  ELSE IF last THEN exit ELSE from + 2 * Len(order) + 2)

Blocks(nfa, r, order, count, kind, exit, neg, width) ==
  [j \in 1..(count * width) |->
     BlockState(nfa, r, order, Len(nfa) + ((j - 1) \div width) * width,
                ((j - 1) % width) + 1, (j - 1) \div width + 1 = count,
                kind, exit, neg)]

\* the loop of _M_quantifier that inserts count blocks; error_space is thrown
\* when the states get more than REGEX_STATE_LIMIT
insert_clones(c, r, order, count, kind, exit, neg, width) ==
  IF c.err # "" \/ count <= 0 THEN c
  ELSE IF count > (REGEX_STATE_LIMIT - Len(c.nfa)) \div width
       THEN Throw(c, "error_space")
  ELSE [c EXCEPT !.nfa = @ \o Blocks(c.nfa, r, order, count, kind, exit, neg, width)]

RECURSIVE disjunction(_)
RECURSIVE alternative(_)

\* the end of "{min,max}" in _M_quantifier: the sequence from the dummy state e
\* to the dummy state exit, which the last of the clones before leads into
interval_finite(c, e, tail, exit, first) ==
  IF c.err # "" THEN c
  ELSE replace([c EXCEPT !.nfa[tail].next = first], 1, [start |-> e, end |-> exit])

\* the end of "{min,}": the sequence from e to the repeat state inserted last
interval_infinite(c, e, tail) ==
  IF c.err # "" THEN c
  ELSE replace([c EXCEPT !.nfa[tail].next = Len(c.nfa)], 1,
               [start |-> e, end |-> Len(c.nfa)])

\* what follows the min_rep clones that have to match, which were inserted
\* after base states and end with the state tail
interval_more(c, r, order, e, tail, infi, n, neg) ==
  IF infi
  THEN interval_infinite(
         insert_clones(c, r, order, 1, "more", 0, neg, Len(order) + 1), e, tail)
  ELSE interval_finite(
         insert_clones(insert_state(c, State("dummy")), r, order, n, "upto",
                       Len(c.nfa) + 1, neg, Len(order) + 1),
         e, tail, Len(c.nfa) + 1,
         IF n > 0 THEN Len(c.nfa) + Len(order) + 2 ELSE Len(c.nfa) + 1)

interval_rest(c, r, order, e, base, min_rep, infi, max_rep, neg) ==
  IF c.err # "" THEN c
  ELSE IF ~infi /\ max_rep < min_rep THEN Throw(c, "error_badbrace")
  ELSE IF ~infi /\ max_rep > REGEX_STATE_LIMIT + min_rep THEN Throw(c, "error_space")
  ELSE IF min_rep <= 0
       THEN interval_more(c, r, order, e, e, infi, max_rep - min_rep, neg)
  ELSE interval_more([c EXCEPT !.nfa[e].next = Moved(order, base, r.start)],
                     r, order, e,
                     Moved(order, base + (min_rep - 1) * Len(order), r.end),
                     infi, max_rep - min_rep, neg)

\* the clones of "{...}" in _M_quantifier: min_rep clones of r after the dummy
\* state e, and then the rest; c.ret tells whether "?" follows the "}"
interval_clones(c, r, order, e, min_rep, infi, max_rep) ==
  interval_rest(insert_clones(c, r, order, min_rep, "min", 0, FALSE, Len(order)),
                r, order, e, Len(c.nfa), min_rep, infi, max_rep, c.ret)

\* "}" of an interval; c.ret tells whether it is there
interval_end(c, r, e, min_rep, infi, max_rep) ==
  IF ~c.ret THEN Throw(c, "error_brace")
  ELSE interval_clones(match_token(c, "opt"), r,
                       clone_order(c.nfa, r.end, <<r.start>>, <<>>), e,
                       min_rep, infi, max_rep)

\* what follows "," in an interval; c.ret tells whether it is a number
interval_max(c, r, e, min_rep) ==
  interval_end(match_token(c, "interval_end"), r, e, min_rep, ~c.ret,
               IF c.ret THEN cur_int_value(Value(c).val, 10) ELSE 0)

\* what follows the first number of an interval; c.ret tells whether it is ","
interval_min(c, r, e, min_rep) ==
  IF c.ret THEN interval_max(match_token(c, "dup_count"), r, e, min_rep)
  ELSE interval_end(match_token(c, "interval_end"), r, e, min_rep, FALSE, min_rep)

\* "{" of _M_quantifier; c.ret tells whether a number follows it
interval(c) ==
  IF ~c.ret THEN Throw(c, "error_badbrace")
  ELSE interval_min(match_token(insert_state(c, State("dummy")), "comma"),
                    top(c), Len(c.nfa) + 1, cur_int_value(Value(c).val, 10))

\* "*" of _M_quantifier; c.ret tells whether "?" follows, which makes it lazy
closure0(c, e) ==
  replace([insert_state(c, Repeat(0, e.start, c.ret)) EXCEPT
             !.nfa[e.end].next = Len(c.nfa) + 1],
          1, [start |-> Len(c.nfa) + 1, end |-> Len(c.nfa) + 1])

\* "+" of _M_quantifier
closure1(c, e) ==
  replace([insert_state(c, Repeat(0, e.start, c.ret)) EXCEPT
             !.nfa[e.end].next = Len(c.nfa) + 1],
          1, [start |-> e.start, end |-> Len(c.nfa) + 1])

\* "?" of _M_quantifier
zero_or_one(c, e) ==
  replace([insert_state(insert_state(c, State("dummy")),
                        Repeat(Len(c.nfa) + 1, e.start, c.ret)) EXCEPT
             !.nfa[e.end].next = Len(c.nfa) + 1],
          1, [start |-> Len(c.nfa) + 2, end |-> Len(c.nfa) + 1])

\* _Compiler::_M_quantifier
quantifier(c) ==
  IF Tok(c) = "closure0" THEN closure0(match_token(match_token(c, "closure0"), "opt"), top(c))
  ELSE IF Tok(c) = "closure1"
       THEN closure1(match_token(match_token(c, "closure1"), "opt"), top(c))
  ELSE IF Tok(c) = "opt" THEN zero_or_one(match_token(match_token(c, "opt"), "opt"), top(c))
  ELSE IF Tok(c) = "interval_begin"
       THEN interval(match_token(match_token(c, "interval_begin"), "dup_count"))
  ELSE [c EXCEPT !.ret = FALSE]

\* the loop of _M_term: while (_M_quantifier()), c being what the last
\* _M_quantifier left
RECURSIVE quantifiers(_)
quantifiers(c) ==
  IF c.err = "" /\ c.ret THEN quantifiers(quantifier(c)) ELSE [c EXCEPT !.ret = TRUE]

\* _BracketMatcher::_M_add_char
add_char(c, ch) == [c EXCEPT !.matcher.char_set = @ \cup {ch}]

\* __push_char and __push_class of _M_expression_term
push_char(c, ch) ==
  [(IF c.last_char.type = "char" THEN add_char(c, c.last_char.ch) ELSE c)
   EXCEPT !.last_char = [type |-> "char", ch |-> ch], !.ret = TRUE]

push_class(c) ==
  [(IF c.last_char.type = "char" THEN add_char(c, c.last_char.ch) ELSE c)
   EXCEPT !.last_char = [type |-> "class", ch |-> 0], !.ret = TRUE]

\* _BracketMatcher::_M_add_collate_element, and what _M_expression_term does
\* with the element st
add_collate_element(c, st) ==
  IF st = <<>> THEN Throw(c, "error_collate")
  ELSE push_char(add_char(c, st[1]), st[1])

\* _BracketMatcher::_M_add_equivalence_class
add_equivalence_class(c, st) ==
  IF st = <<>> THEN Throw(c, "error_collate")
  ELSE [c EXCEPT !.matcher.equiv_set = @ \cup {tolower(st[1])}]

\* _BracketMatcher::_M_add_character_class
add_character_class(c, mask, neg) ==
  IF mask = "" THEN Throw(c, "error_collate")
  ELSE IF neg THEN [c EXCEPT !.matcher.neg_class_set = @ \cup {mask}]
  ELSE [c EXCEPT !.matcher.class_set = @ \cup {mask}]

\* _BracketMatcher::_M_make_range, after which there is no last character
make_range(c, l, r) ==
  IF l > r THEN Throw(c, "error_range")
  ELSE [c EXCEPT !.matcher.range_set = @ \cup {<<l, r>>},
                 !.last_char = [type |-> "none", ch |-> 0], !.ret = TRUE]

\* "-" in _M_expression_term
bracket_dash(c) ==
  IF Tok(c) = "bracket_end"
  THEN [push_char(match_token(c, "bracket_end"), 45) EXCEPT !.ret = FALSE]
  ELSE IF c.last_char.type = "class" THEN Throw(c, "error_range")
  ELSE IF c.last_char.type = "char"
       THEN (IF Tok(c) \in {"hex_num", "ord_char"}
             THEN make_range(match_token(c, Tok(c)), c.last_char.ch,
                             TokenChar(c.toks[c.k]))
             ELSE IF Tok(c) = "bracket_dash"
                  THEN make_range(match_token(c, "bracket_dash"), c.last_char.ch, 45)
             ELSE Throw(c, "error_range"))
  ELSE push_char(c, 45)

\* _Compiler::_M_expression_term
expression_term(c) ==
  IF Tok(c) = "bracket_end" THEN [match_token(c, "bracket_end") EXCEPT !.ret = FALSE]
  ELSE IF Tok(c) = "collsymbol"
       THEN add_collate_element(match_token(c, "collsymbol"),
                                lookup_collatename(c.toks[c.k].val))
  ELSE IF Tok(c) = "equiv_class_name"
       THEN add_equivalence_class(push_class(match_token(c, "equiv_class_name")),
                                  lookup_collatename(c.toks[c.k].val))
  ELSE IF Tok(c) = "char_class_name"
       THEN add_character_class(push_class(match_token(c, "char_class_name")),
                                lookup_classname(c.toks[c.k].val), FALSE)
  ELSE IF Tok(c) \in {"hex_num", "ord_char"}
       THEN push_char(match_token(c, Tok(c)), TokenChar(c.toks[c.k]))
  ELSE IF Tok(c) = "bracket_dash" THEN bracket_dash(match_token(c, "bracket_dash"))
  ELSE IF Tok(c) = "quoted_class"
       THEN add_character_class(push_class(match_token(c, "quoted_class")),
                                lookup_classname(c.toks[c.k].val),
                                c.toks[c.k].val \in {"D", "S", "W"})
  ELSE Throw(c, "error_brack")

\* the loop of _M_insert_bracket_matcher: while (_M_expression_term(...))
RECURSIVE expression_terms(_)
expression_terms(c) ==
  IF c.err = "" /\ c.ret THEN expression_terms(expression_term(c)) ELSE c

\* the start of _M_insert_bracket_matcher: a first character or "-"
bracket_start(c) ==
  IF Tok(c) \in {"hex_num", "ord_char"}
  THEN [match_token(c, Tok(c)) EXCEPT
          !.last_char = [type |-> "char", ch |-> TokenChar(c.toks[c.k])]]
  ELSE IF Tok(c) = "bracket_dash"
       THEN [match_token(c, "bracket_dash") EXCEPT
               !.last_char = [type |-> "char", ch |-> 45]]
  ELSE c

\* the end of _M_insert_bracket_matcher
bracket_end(c) ==
  push_state(insert_state(c, [State("match") EXCEPT
    !.matcher = IF c.last_char.type = "char"
                THEN [c.matcher EXCEPT !.char_set = @ \cup {c.last_char.ch}]
                ELSE c.matcher]))

\* _Compiler::_M_insert_bracket_matcher
insert_bracket_matcher(c, neg) ==
  bracket_end(expression_terms(
    [bracket_start([c EXCEPT !.matcher = BracketMatcher(neg),
                             !.last_char = [type |-> "none", ch |-> 0]])
     EXCEPT !.ret = TRUE]))

\* _Compiler::_M_insert_character_class_matcher, for "\d" and the like
insert_character_class_matcher(c, val) ==
  push_state(insert_state(c, [State("match") EXCEPT
    !.matcher = [BracketMatcher(val \in {"D", "S", "W"}) EXCEPT
                   !.class_set = {lookup_classname(val)}]]))

\* ")" of a group in _M_atom and _M_assertion
subexpr_end(c) ==
  IF Tok(c) = "subexpr_end" THEN match_token(c, "subexpr_end")
  ELSE Throw(c, "error_paren")

\* the end of "(?:...)" in _M_atom, r being its first state
no_group_end(c, r) ==
  replace([c EXCEPT !.nfa[r].next = top(c).start], 1,
          [start |-> r, end |-> top(c).end])

\* the end of "(...)" in _M_atom
group_end(c, r) ==
  replace([insert_subexpr_end(c) EXCEPT !.nfa[r].next = top(c).start,
                                        !.nfa[top(c).end].next = Len(c.nfa) + 1],
          1, [start |-> r, end |-> Len(c.nfa) + 1])

\* the end of "(?=...)" and "(?!...)" in _M_assertion
lookahead_end(c, neg) ==
  push_state(
    insert_state([insert_state([c EXCEPT !.stack = SubSeq(@, 1, Len(@) - 1)],
                               State("accept"))
                  EXCEPT !.nfa[top(c).end].next = Len(c.nfa) + 1],
                 [State("subexpr_lookahead") EXCEPT !.alt = top(c).start,
                                                    !.neg = neg]))

\* _Compiler::_M_assertion
assertion(c) ==
  IF Tok(c) = "line_begin"
  THEN push_state(insert_state(match_token(c, "line_begin"),
                               State("line_begin_assertion")))
  ELSE IF Tok(c) = "line_end"
       THEN push_state(insert_state(match_token(c, "line_end"),
                                    State("line_end_assertion")))
  ELSE IF Tok(c) = "word_bound"
       THEN push_state(insert_state(match_token(c, "word_bound"),
                                    [State("word_boundary") EXCEPT
                                       !.neg = c.toks[c.k].val = "n"]))
  ELSE IF Tok(c) = "subexpr_lookahead_begin"
       THEN lookahead_end(
              subexpr_end(disjunction(match_token(c, "subexpr_lookahead_begin"))),
              c.toks[c.k].val = "n")
  ELSE [c EXCEPT !.ret = FALSE]

\* _Compiler::_M_atom, with _M_bracket_expression
atom(c) ==
  IF Tok(c) = "anychar"
  THEN push_state(insert_state(match_token(c, "anychar"),
                               [State("match") EXCEPT !.matcher = AnyMatcher]))
  ELSE IF Tok(c) \in {"hex_num", "ord_char"}
       THEN push_state(insert_state(match_token(c, Tok(c)),
              [State("match") EXCEPT !.matcher = CharMatcher(TokenChar(c.toks[c.k]))]))
  ELSE IF Tok(c) = "backref"
       THEN push_state(insert_backref(match_token(c, "backref"),
                                      cur_int_value(c.toks[c.k].val, 10)))
  ELSE IF Tok(c) = "quoted_class"
       THEN insert_character_class_matcher(match_token(c, "quoted_class"),
                                           c.toks[c.k].val)
  ELSE IF Tok(c) = "subexpr_no_group_begin"
       THEN no_group_end(
              subexpr_end(disjunction(
                insert_state(match_token(c, "subexpr_no_group_begin"),
                             State("dummy")))),
              Len(c.nfa) + 1)
  ELSE IF Tok(c) = "subexpr_begin"
       THEN group_end(
              subexpr_end(disjunction(
                insert_subexpr_begin(match_token(c, "subexpr_begin")))),
              Len(c.nfa) + 1)
  ELSE IF Tok(c) \in {"bracket_neg_begin", "bracket_begin"}
       THEN insert_bracket_matcher(match_token(c, Tok(c)),
                                   Tok(c) = "bracket_neg_begin")
  ELSE [c EXCEPT !.ret = FALSE]

\* _Compiler::_M_term, after _M_assertion
term_quantifiers(c) == IF c.err = "" /\ c.ret THEN quantifiers(quantifier(c)) ELSE c

term_atom(c) == IF c.err = "" /\ c.ret THEN c ELSE term_quantifiers(atom(c))

term(c) == term_atom(assertion(c))

\* _Compiler::_M_alternative, after _M_term: the term and what follows it are
\* the two sequences on top of the stack
alternative_rest(c) ==
  replace([c EXCEPT !.nfa[below(c).end].next = top(c).start], 2,
          [start |-> below(c).start, end |-> top(c).end])

alternative_term(c) ==
  IF c.err = "" /\ c.ret THEN alternative_rest(alternative(c))
  ELSE push_state(insert_state(c, State("dummy")))

alternative(c) == alternative_term(term(c))

\* _Compiler::_M_disjunction, after "|" and the alternative that follows it:
\* the two alternatives are the two sequences on top of the stack
disjunction_or(c) ==
  replace(
    insert_state([insert_state(c, State("dummy")) EXCEPT
                    !.nfa[below(c).end].next = Len(c.nfa) + 1,
                    !.nfa[top(c).end].next = Len(c.nfa) + 1],
                 [State("alternative") EXCEPT !.next = top(c).start,
                                              !.alt = below(c).start]),
    2, [start |-> Len(c.nfa) + 2, end |-> Len(c.nfa) + 1])

\* the loop of _M_disjunction: while (_M_match_token(_S_token_or))
RECURSIVE disjunction_loop(_)
disjunction_loop(c) ==
  IF Tok(c) = "or"
  THEN disjunction_loop(disjunction_or(alternative(match_token(c, "or"))))
  ELSE c

disjunction(c) == disjunction_loop(alternative(c))

\* _NFA::_M_eliminate_dummy: the state that a chain of dummy states leads to
RECURSIVE SkipDummy(_, _)
SkipDummy(nfa, id) ==
  IF id # 0 /\ nfa[id].opcode = "dummy" THEN SkipDummy(nfa, nfa[id].next) ELSE id

eliminate_dummy(nfa) ==
  [i \in 1..Len(nfa) |->
     [nfa[i] EXCEPT !.next = SkipDummy(nfa, @),
                    !.alt = IF has_alt(nfa[i]) THEN SkipDummy(nfa, @) ELSE @]]

\* the end of the constructor of _Compiler
compiler_end(c) ==
  insert_state(
    [insert_subexpr_end(IF Tok(c) = "eof" THEN c ELSE Throw(c, "error_paren"))
     EXCEPT !.nfa[1].next = top(c).start,
            !.nfa[top(c).end].next = Len(c.nfa) + 1,
            !.nfa[Len(c.nfa) + 1].next = Len(c.nfa) + 2],
    State("accept"))

\* the constructor of _Compiler over the tokens of the pattern
Compiler(toks) ==
  compiler_end(disjunction(insert_subexpr_begin(
    [toks |-> toks, k |-> 1, nfa |-> <<>>, stack |-> <<>>, subexpr_count |-> 0,
     paren_stack |-> <<>>, ret |-> FALSE, matcher |-> NoMatcher,
     last_char |-> [type |-> "none", ch |-> 0],
     err |-> IF toks[1].tok = "error" THEN toks[1].val ELSE ""])))

\* what the constructor leaves: the error it threw, or the automaton
Compiled(c) ==
  IF c.err # "" THEN [err |-> c.err, nfa |-> <<>>, sub_count |-> 0]
  ELSE [err |-> "", nfa |-> eliminate_dummy(c.nfa), sub_count |-> c.subexpr_count]

\* std::regex regex(re): err is the code of the std::regex_error it throws, ""
\* when it throws none
basic_regex(re) == Compiled(Compiler(Scan(re, <<>>, advance(re, 0, "normal"))))

(* the executor, _Executor<..., true> *)
\* The executor x is the record of the automaton nfa, the codes s of the text,
\* the place begin where the match is to start, the flag match_prev_avail and
\* the mode ("exact": the match has to end with the text). _M_dfs returns
\* _M_has_sol, and with it _M_cur_results as it leaves them and _M_results.
NoSol(cur_results) ==
  [has_sol |-> FALSE, cur_results |-> cur_results, results |-> <<>>]

\* _Executor::_M_word_boundary
word_boundary(x, current) ==
  ((current # x.begin \/ x.prev_avail) /\ isctype(x.s[current], "w"))
    # (current # Len(x.s) /\ isctype(x.s[current + 1], "w"))

RECURSIVE dfs(_, _, _, _, _)

\* the second branch of a state, which is taken when the first found no match
or_else(x, first, i, current, rep_count) ==
  IF first.has_sol THEN first
  ELSE dfs(x, i, current, first.cur_results, rep_count)

\* _Executor::_M_rep_once_more
rep_once_more(x, i, current, cur_results, rep_count) ==
  IF rep_count[i][2] = 0 \/ rep_count[i][1] # current
  THEN dfs(x, x.nfa[i].alt, current, cur_results,
           [rep_count EXCEPT ![i] = <<current, 1>>])
  ELSE IF rep_count[i][2] < 2
       THEN dfs(x, x.nfa[i].alt, current, cur_results,
                [rep_count EXCEPT ![i] = <<current, 2>>])
  ELSE NoSol(cur_results)

\* the second branch of a lazy repeat state
or_more(x, first, i, current, rep_count) ==
  IF first.has_sol THEN first
  ELSE rep_once_more(x, i, current, first.cur_results, rep_count)

\* _Executor::_M_handle_repeat
handle_repeat(x, i, current, cur_results, rep_count) ==
  IF ~x.nfa[i].neg
  THEN or_else(x, rep_once_more(x, i, current, cur_results, rep_count),
               x.nfa[i].next, current, rep_count)
  ELSE or_more(x, dfs(x, x.nfa[i].next, current, cur_results, rep_count),
               i, current, rep_count)

\* _Executor::_M_handle_subexpr_begin; g is the place of the group in the results
handle_subexpr_begin(x, i, current, cur_results, rep_count, g) ==
  [dfs(x, x.nfa[i].next, current,
       [cur_results EXCEPT ![g].first = current], rep_count)
   EXCEPT !.cur_results[g].first = cur_results[g].first]

\* _Executor::_M_handle_subexpr_end
handle_subexpr_end(x, i, current, cur_results, rep_count, g) ==
  [dfs(x, x.nfa[i].next, current,
       [cur_results EXCEPT ![g].second = current, ![g].matched = TRUE], rep_count)
   EXCEPT !.cur_results[g] = cur_results[g]]

\* _Executor::_M_handle_match
handle_match(x, i, current, cur_results, rep_count) ==
  IF current # Len(x.s) /\ matches(x.nfa[i].matcher, x.s[current + 1])
  THEN dfs(x, x.nfa[i].next, current + 1, cur_results, rep_count)
  ELSE NoSol(cur_results)

\* _Executor::_M_handle_backref; last is the place where the text of the group
\* would end
handle_backref(x, i, current, cur_results, rep_count, submatch, last) ==
  IF submatch.matched
     /\ SubSeq(x.s, submatch.first + 1, submatch.second) = SubSeq(x.s, current + 1, last)
  THEN dfs(x, x.nfa[i].next, last, cur_results, rep_count)
  ELSE NoSol(cur_results)

\* _Executor::_M_handle_accept
handle_accept(x, current, cur_results) ==
  IF x.mode = "exact" => current = Len(x.s)
  THEN [has_sol |-> TRUE, cur_results |-> cur_results, results |-> cur_results]
  ELSE NoSol(cur_results)

\* _Executor::_M_lookahead, after the executor it starts has run: the groups
\* that sub matched are copied into _M_cur_results
lookahead(cur_results, sub) ==
  IF sub.has_sol
  THEN [g \in 1..Len(cur_results) |->
          IF sub.results[g].matched THEN sub.results[g] ELSE cur_results[g]]
  ELSE cur_results

\* _Executor::_M_handle_subexpr_lookahead
handle_subexpr_lookahead(x, i, current, rep_count, cur_results, found) ==
  IF found = ~x.nfa[i].neg
  THEN dfs(x, x.nfa[i].next, current, cur_results, rep_count)
  ELSE NoSol(cur_results)

\* the executor that _M_lookahead starts at the place current
SubExecutor(x, i, current, cur_results, rep_count, sub) ==
  handle_subexpr_lookahead(x, i, current, rep_count, lookahead(cur_results, sub),
                           sub.has_sol)

\* _Executor::_M_dfs
dfs(x, i, current, cur_results, rep_count) ==
  CASE x.nfa[i].opcode = "repeat" ->
         handle_repeat(x, i, current, cur_results, rep_count)
    [] x.nfa[i].opcode = "subexpr_begin" ->
         handle_subexpr_begin(x, i, current, cur_results, rep_count,
                              x.nfa[i].subexpr + 1)
    [] x.nfa[i].opcode = "subexpr_end" ->
         handle_subexpr_end(x, i, current, cur_results, rep_count,
                            x.nfa[i].subexpr + 1)
    [] x.nfa[i].opcode = "line_begin_assertion" ->
         IF current = x.begin /\ ~x.prev_avail
         THEN dfs(x, x.nfa[i].next, current, cur_results, rep_count)
         ELSE NoSol(cur_results)
    [] x.nfa[i].opcode = "line_end_assertion" ->
         IF current = Len(x.s)
         THEN dfs(x, x.nfa[i].next, current, cur_results, rep_count)
         ELSE NoSol(cur_results)
    [] x.nfa[i].opcode = "word_boundary" ->
         IF word_boundary(x, current) = ~x.nfa[i].neg
         THEN dfs(x, x.nfa[i].next, current, cur_results, rep_count)
         ELSE NoSol(cur_results)
    [] x.nfa[i].opcode = "subexpr_lookahead" ->
         SubExecutor(x, i, current, cur_results, rep_count,
                     dfs([x EXCEPT !.begin = current, !.mode = "prefix"],
                         x.nfa[i].alt, current, cur_results,
                         [j \in 1..Len(x.nfa) |-> <<0, 0>>]))
    [] x.nfa[i].opcode = "match" ->
         handle_match(x, i, current, cur_results, rep_count)
    [] x.nfa[i].opcode = "backref" ->
         handle_backref(x, i, current, cur_results, rep_count,
                        cur_results[x.nfa[i].subexpr + 1],
                        IF cur_results[x.nfa[i].subexpr + 1].matched
                        THEN Min(current + cur_results[x.nfa[i].subexpr + 1].second
                                   - cur_results[x.nfa[i].subexpr + 1].first,
                                 Len(x.s))
                        ELSE current)
    [] x.nfa[i].opcode = "accept" -> handle_accept(x, current, cur_results)
    [] x.nfa[i].opcode = "alternative" ->
         or_else(x, dfs(x, x.nfa[i].alt, current, cur_results, rep_count),
                 x.nfa[i].next, current, rep_count)

\* _Executor::_M_main_dispatch for a match that starts at begin: the results
\* start with no group matched and the repeat counts with 0
main_dispatch(re, s, begin, mode) ==
  dfs([nfa |-> re.nfa, s |-> s, begin |-> begin, prev_avail |-> begin > 0,
       mode |-> mode],
      1, begin,
      [g \in 1..re.sub_count |-> [first |-> 0, second |-> 0, matched |-> FALSE]],
      [j \in 1..Len(re.nfa) |-> <<0, 0>>]).has_sol

\* std::regex_match(text, re) for a std::regex re: the pattern matches the whole
\* text
regex_match(text, re) == main_dispatch(re, Codes(text), 0, "exact")

\* std::regex_search(text, re), _Executor::_M_search: the pattern matches a part
\* of the text, which starts at the place begin; match_prev_avail is set for
\* every place but the first
regex_search(text, re) ==
  \E begin \in 0..Len(text) : main_dispatch(re, Codes(text), begin, "prefix")

(* --------------------------- position engine --------------------------- *)
\* constants::STARTPOS, the board a visitor starts from
STARTPOS == 0

\* board.occ().count() of the position with hash k
PieceCount(k) == IF k % 3 = 0 THEN 3 ELSE StartPieces

\* movegen::legalmoves(movelist, board) leaves a non-empty list
HasLegalMoves(k) == k % 3 # 2

\* board.sideToMove() of the position with hash k
SideToMove(k) == IF k % 2 = 1 THEN "BLACK" ELSE "WHITE"

\* board.makeMove(m) for a move m that leads to the position with hash k
makeMove(board, k) == [board EXCEPT !.pos = k, !.ply = @ + 1]

\* the fields of a text between its blanks
RECURSIVE Split(_, _)
Split(chars, field) ==
  IF chars = "" THEN <<field>>
  ELSE IF Ch(chars, 1) = " " THEN <<field>> \o Split(Sub(chars, 2, Len(chars)), "")
  ELSE Split(Sub(chars, 2, Len(chars)), field \o Ch(chars, 1))

\* the hash of the position that the placement, side to move, castling and
\* en-passant fields of a FEN describe; the model writes the four as one
\* character, "p" for the position with hash 1 and "q" for the one with hash 2
FenPosition(c) == IF c = "p" THEN 1 ELSE 2

\* board.setFen(fen) for a FEN of the model: the position, and the ply count
\* from the fullmove number and the side to move
setFen(board, fen) ==
  LET fields == Split(fen, "")
      pos == FenPosition(Ch(fields[1], 1))
  IN [board EXCEPT !.pos = pos,
                   !.ply = 2 * (Number(fields[3]) - 1)
                             + (IF SideToMove(pos) = "BLACK" THEN 1 ELSE 0)]

\* Analyze::header's std::regex p("0 1$"), a pattern std::regex accepts
Regex01 == basic_regex("0 1$")

\* std::regex_search(text, p)
RegexSearch01(text) == regex_search(text, Regex01)

\* std::regex_replace(text, p, "0 " + move_counter): a match of p is the last
\* three characters of the text, and a move counter, the text of a number, holds
\* no "$" for the format to expand
RegexReplace01(text, move_counter) ==
  IF RegexSearch01(text)
  THEN Sub(text, 1, Len(text) - 3) \o "0 " \o move_counter
  ELSE text

\* board.getFen(move_counters): the position's text, with the move counters or not
GetFen(board, move_counters) ==
  [pos |-> board.pos, counters |-> IF move_counters THEN <<board.ply>> ELSE <<>>]

\* Board::Compact::encode(board)
Encode(board) == [packed |-> <<board.pos, board.ply>>]

\* Board::Compact::decode(packed)
Decode(p) == [pos |-> p.packed[1], ply |-> p.packed[2], chess960 |-> FALSE]

VARIABLES
  opt,              \* the command-line settings, fixed by main
  inp,              \* what the pgn streams may contain
  mainpc,           \* the main thread's position
  files_chunked,    \* process(): the chunks of the file list
  enqueued,         \* process(): the number of chunks its loop has enqueued
  queue,            \* the thread pool's FIFO of chunks not yet taken
  pc,               \* each worker's position
  task,             \* each worker's chunk: the files still to analyse
  par,              \* each worker's parser: games and moves read so far
  vis,              \* each worker's Analyze visitor
  loc,              \* the locals of Analyze::move between its steps
  zobrist_map,      \* hash -> count
  fen_map,          \* hash -> PackedBoard
  out_file,         \* the lines written to the output file
  progress_output,  \* the mutex: 0 when free, else the worker holding it
  total_files, total_games, total_pos,
  calls,            \* observer: completed lazy_emplace_l calls per key
  news,             \* observer: calls per key that returned true
  fired,            \* observer: report triggers per key
  game_calls,       \* observer: calls made by each worker's current game
  applied,          \* observer: applied non-book moves that passed the ply budget
  games_read,       \* observer: games read so far from all streams
  counted,          \* observer: the games that passed startMoves, as <<file, index>>
  out_open,         \* whether main has opened the output file
  move_failed,      \* observer: the games in which a move failed to parse or apply
  read_failed,      \* observer: the files whose reading ended in an exception
  meta_map,         \* test filename -> metadata, as get_metadata returned it
  warned,           \* observer: the test filenames get_metadata printed a notice for
  probes,           \* observer: the test filenames whose .json get_metadata tried to open
  run,              \* which run over the corpus this is: 1, or 2 after a rerun
  first             \* the counts, the counted games and the minElo of run 1, kept for run 2

vars == <<opt, inp, mainpc, files_chunked, enqueued, queue, pc, task, par, vis, loc, zobrist_map, fen_map,
          out_file, progress_output, total_files, total_games, total_pos,
          calls, news, fired, game_calls, applied, games_read, counted,
          out_open, move_failed, read_failed, meta_map, warned, probes, run, first>>

shared == <<zobrist_map, fen_map, out_file, progress_output, total_files,
            total_games, total_pos>>
observers == <<calls, news, fired, game_calls, applied, games_read, counted>>
runs == <<run, first>>
proc == <<out_open, move_failed, read_failed>>
metav == <<meta_map, warned, probes>>
plan == <<files_chunked, enqueued>>

(* ------------------------------ helpers -------------------------------- *)
\* the value of a map at a key, 0 when the key is absent
Count(map, k) == IF k \in DOMAIN map THEN map[k] ELSE 0

\* a map with one entry set
Put(map, k, v) == [x \in DOMAIN map \cup {k} |-> IF x = k THEN v ELSE map[x]]

EmptyMap == [x \in {} |-> 0]

RECURSIVE SumOver(_, _)
SumOver(f, S) == IF S = {} THEN 0
                 ELSE LET x == CHOOSE y \in S : TRUE IN f[x] + SumOver(f, S \ {x})

(* ------------------------------ planner -------------------------------- *)
RECURSIVE ChunkLoop(_, _)
ChunkLoop(rest, chunks_size) ==
  IF rest = <<>> THEN <<>>
  ELSE LET n == Min(chunks_size, Len(rest))
       IN <<SubSeq(rest, 1, n)>> \o ChunkLoop(SubSeq(rest, n + 1, Len(rest)), chunks_size)

\* mutant: the chunk size is the quotient plus one instead of the rounded-up quotient
split_chunks_PlusOne(pgns, target_chunks) ==
  ChunkLoop(pgns, Len(pgns) \div target_chunks + 1)

split_chunks(pgns, target_chunks) ==
  ChunkLoop(pgns, (Len(pgns) + target_chunks - 1) \div target_chunks)

(* ------------------------------ file list ------------------------------ *)
\* a path is a std::string, here a sequence of character codes
Paths == UNION {[1..n -> 1..NChars] : n \in 1..MaxPathLen}

\* operator< of std::string: lexicographic, a proper prefix comes first
RECURSIVE LexLess(_, _)
LexLess(a, b) ==
  IF b = <<>> THEN FALSE
  ELSE IF a = <<>> THEN TRUE
  ELSE IF a[1] # b[1] THEN a[1] < b[1]
  ELSE LexLess(Tail(a), Tail(b))

\* one element put at its place in a sorted list
RECURSIVE SortedInsert(_, _)
SortedInsert(list, x) ==
  IF list = <<>> THEN <<x>>
  ELSE IF LexLess(x, Head(list)) THEN <<x>> \o list
  ELSE <<Head(list)>> \o SortedInsert(Tail(list), x)

\* mutant: the list is left in the order it was collected
sort_None(list) == list

\* std::sort(files_pgn.begin(), files_pgn.end())
RECURSIVE sort(_)
sort(list) ==
  IF list = <<>> THEN <<>>
  ELSE SortedInsert(sort(SubSeq(list, 1, Len(list) - 1)), list[Len(list)])

\* std::string::npos
npos == -1

\* s.find(sub): the index of the first occurrence of sub in s, npos without one
find(s, sub) ==
  LET hits == {i \in 0..(Len(s) - Len(sub)) : SubSeq(s, i + 1, i + Len(sub)) = sub}
  IN IF hits = {} THEN npos ELSE CHOOSE i \in hits : \A j \in hits : i <= j

\* main's loop over the sorted list: some entry starts with the entry before it
DuplicateFiles(files) ==
  \E i \in 2..Len(files) : find(files[i], files[i - 1]) = 0

\* the file list of the corpora that are given file by file: MaxFiles paths of
\* one character each
DefaultPaths == [i \in 1..MaxFiles |-> <<i>>]

(* ------------------------------ visitor -------------------------------- *)
\* the members of a freshly constructed Analyze
NewVisitor ==
  [board |-> [pos |-> STARTPOS, ply |-> 0, chess960 |-> FALSE],
   hasResult |-> FALSE, do_filter |-> FALSE, filter_side |-> "NONE",
   white |-> "", black |-> "", whiteElo |-> 0, blackElo |-> 0,
   retained_plies |-> 0, new_entry_count |-> 0, move_counter |-> ""]

NoLocals == [key |-> 0, value |-> 0, is_new_entry |-> FALSE]

\* Analyze::header for one tag pair. The value is a std::string_view; rest holds
\* the characters that follow the view in the parser's buffer, up to the first
\* NUL: value.data(), which header hands to std::regex_search and
\* std::regex_replace, is the C string of the value and these characters
header(v, key, value, rest) ==
  IF key = "FEN"
  THEN (IF v.move_counter # "" /\ RegexSearch01(value \o rest)
        THEN [v EXCEPT !.board = setFen(@, RegexReplace01(value \o rest, v.move_counter))]
        ELSE [v EXCEPT !.board = setFen(@, value)])
  ELSE IF key = "Variant"
  THEN (IF value = "fischerandom" THEN [v EXCEPT !.board.chess960 = TRUE] ELSE v)
  ELSE IF key = "Result" THEN [v EXCEPT !.hasResult = TRUE]
  ELSE IF key = "White" THEN [v EXCEPT !.white = value]
  ELSE IF key = "Black" THEN [v EXCEPT !.black = value]
  ELSE IF key = "WhiteElo" THEN [v EXCEPT !.whiteElo = StoiOrZero(value)]
  ELSE IF key = "BlackElo" THEN [v EXCEPT !.blackElo = StoiOrZero(value)]
  ELSE v

\* what follows the value of a tag in the parser's buffer: a tag is written
\* <<key, value>> when a NUL follows the value and <<key, value, rest>> otherwise
BufferRest(tag) == IF Len(tag) >= 3 THEN tag[3] ELSE ""

RECURSIVE headers(_, _)
headers(v, tags) ==
  IF tags = <<>> THEN v
  ELSE headers(header(v, tags[1][1], tags[1][2], BufferRest(tags[1])), Tail(tags))

\* mutant: the Elo test with > for <
EloTooLow_Inverted(v) == v.whiteElo > opt.min_Elo \/ v.blackElo > opt.min_Elo

\* mutant: only White's Elo is tested
EloTooLow_WhiteOnly(v) == v.whiteElo < opt.min_Elo

\* the Elo test of Analyze::startMoves
EloTooLow(v) == v.whiteElo < opt.min_Elo \/ v.blackElo < opt.min_Elo

\* the engine filter of Analyze::startMoves once its std::regex is constructed:
\* the visitor with do_filter and filter_side set
FilterSide(v, regex) ==
  LET side1 == IF regex_match(v.white, regex) THEN "WHITE" ELSE v.filter_side
  IN IF regex_match(v.black, regex)
     THEN IF side1 = "NONE"
          THEN [v EXCEPT !.do_filter = TRUE, !.filter_side = "BLACK"]
          ELSE [v EXCEPT !.do_filter = FALSE, !.filter_side = side1]
     ELSE [v EXCEPT !.do_filter = TRUE, !.filter_side = side1]

\* mutant: when neither name matches the filter is switched off
FilterSide_NeitherOff(v, regex) ==
  LET wm == regex_match(v.white, regex)
      bm == regex_match(v.black, regex)
  IN [v EXCEPT !.do_filter = (wm # bm),
               !.filter_side = IF wm THEN "WHITE" ELSE IF bm THEN "BLACK" ELSE "NONE"]

\* what std::regex regex(regex_engine) and the tests that follow it leave: the
\* constructor throws std::regex_error for a pattern it rejects, do_filter being
\* set and filter_side not; thrown is the error code, "" when nothing is thrown
Constructed(v, regex) ==
  IF regex.err # "" THEN [thrown |-> regex.err, v |-> [v EXCEPT !.do_filter = TRUE]]
  ELSE [thrown |-> "", v |-> FilterSide(v, regex)]

\* mutant: when neither name matches the filter is switched off
EngineFilter_NeitherOff(v) ==
  [thrown |-> basic_regex(opt.regex_engine).err,
   v |-> IF basic_regex(opt.regex_engine).err # "" THEN [v EXCEPT !.do_filter = TRUE]
         ELSE FilterSide_NeitherOff(v, basic_regex(opt.regex_engine))]

\* the engine filter of Analyze::startMoves for a game with both names
EngineFilter(v) == Constructed(v, basic_regex(opt.regex_engine))

\* the end of Analyze::startMoves behind the engine filter: the exception leaves
\* startMoves before total_games++, skipPgn(true) is not called
Filtered(r) == <<r.v, FALSE, r.thrown>>

\* Analyze::startMoves: <<the visitor afterwards, whether skipPgn(true) was
\* called, the code of the std::regex_error thrown or "">>
startMoves(v) ==
  IF ~v.hasResult THEN <<v, TRUE, "">>
  ELSE IF EloTooLow(v) THEN <<v, TRUE, "">>
  ELSE IF opt.regex_engine # ""
       THEN IF v.white = "" \/ v.black = ""
            THEN <<[v EXCEPT !.do_filter = TRUE], TRUE, "">>
            ELSE Filtered(EngineFilter(v))
       ELSE <<[v EXCEPT !.do_filter = FALSE], FALSE, "">>

\* mutant: the board is set to the start position, the Chess960 flag is kept
endPgn_Keeps960(v) ==
  [v EXCEPT !.board = [pos |-> STARTPOS, ply |-> 0, chess960 |-> v.board.chess960],
            !.hasResult = FALSE, !.retained_plies = 0, !.new_entry_count = 0,
            !.filter_side = "NONE", !.white = "", !.black = "",
            !.whiteElo = 0, !.blackElo = 0]

\* Analyze::endPgn
endPgn(v) ==
  [v EXCEPT !.board = [pos |-> STARTPOS, ply |-> 0, chess960 |-> FALSE],
            !.hasResult = FALSE, !.retained_plies = 0, !.new_entry_count = 0,
            !.filter_side = "NONE", !.white = "", !.black = "",
            !.whiteElo = 0, !.blackElo = 0]

\* mutant: the budget test with > for >=
BudgetSpent_Late(v) == v.retained_plies > opt.max_plies

\* the ply budget test at the head of Analyze::move
BudgetSpent(v) == v.retained_plies >= opt.max_plies

\* tb_limit > 1, a comparison of unsigned ints
TbOn == ~LessEq(opt.tb_limit, Unsigned(1))

\* mutant: the tablebase test with < for <=
TbSkip_Strict(k) == TbOn /\ ~LessEq(opt.tb_limit, Unsigned(PieceCount(k)))

\* the tablebase test of Analyze::move on the position after the move: the
\* piece count, an unsigned int, against the unsigned tb_limit
TbSkip(k) == TbOn /\ LessEq(Unsigned(PieceCount(k)), opt.tb_limit)

\* the mate test of Analyze::move on the position after the move
MateSkip(k) == opt.omit_mates /\ ~HasLegalMoves(k)

\* mutant: the filter side is not looked at
Counted_AnySide(v, k, comment) == comment # "book"

\* mutant: book moves are counted like any other
Counted_Book(v, k, comment) == ~v.do_filter \/ v.filter_side = SideToMove(k)

\* the test that decides whether the position after the move is counted
Counted(v, k, comment) ==
  (~v.do_filter \/ v.filter_side = SideToMove(k)) /\ comment # "book"

\* mutant: an existing entry is left as it is (try_emplace for lazy_emplace_l)
lazy_emplace_l_Keep(map, key) ==
  IF key \in DOMAIN map
  THEN [map |-> map, value |-> map[key], is_new |-> FALSE]
  ELSE [map |-> Put(map, key, 1), value |-> 1, is_new |-> TRUE]

\* mutant: the bool returned says that the key was found
lazy_emplace_l_Found(map, key) ==
  IF key \in DOMAIN map
  THEN [map |-> [map EXCEPT ![key] = @ + 1], value |-> map[key] + 1, is_new |-> TRUE]
  ELSE [map |-> Put(map, key, 1), value |-> 1, is_new |-> FALSE]

\* zobrist_map.lazy_emplace_l(key, increment, construct-with-1), under the
\* shard's mutex: the map afterwards, the value stored, the bool returned
lazy_emplace_l(map, key) ==
  IF key \in DOMAIN map
  THEN [map |-> [map EXCEPT ![key] = @ + 1], value |-> map[key] + 1, is_new |-> FALSE]
  ELSE [map |-> Put(map, key, 1), value |-> 1, is_new |-> TRUE]

\* mutant: the trigger tests the value before the increment
ReportTrigger_Pre(value) == value - 1 = opt.min_count

\* mutant: the trigger fires one visit late
ReportTrigger_Late(value) == value = opt.min_count + 1

\* mutant: the trigger with >= for ==
ReportTrigger_AtLeast(value) == value >= opt.min_count

\* mutant: the trigger fires up to the threshold
ReportTrigger_UpTo(value) == value <= opt.min_count

\* the report trigger of Analyze::move
ReportTrigger(value) == value = opt.min_count

\* fen_map.insert(std::pair(key, fen)): an existing entry is kept
fen_map_insert(map, key, fen) == IF key \in DOMAIN map THEN map ELSE Put(map, key, fen)

\* mutant: the early stop is tested before new_entry_count is incremented
MoveTail_TestFirst(v, is_new_entry) ==
  LET n == IF is_new_entry THEN v.new_entry_count + 1 ELSE v.new_entry_count
      v1 == [v EXCEPT !.new_entry_count = n]
  IN IF opt.count_stop_early = Unsigned(v.new_entry_count)
     THEN <<v1, TRUE>>
     ELSE <<[v1 EXCEPT !.retained_plies = @ + 1], FALSE>>

\* the end of Analyze::move after a counted position: <<the visitor afterwards,
\* whether skipPgn(true) was called>>
MoveTail(v, is_new_entry) ==
  LET n == IF is_new_entry THEN v.new_entry_count + 1 ELSE v.new_entry_count
      v1 == [v EXCEPT !.new_entry_count = n]
  IN IF opt.count_stop_early = Unsigned(n)
     THEN <<v1, TRUE>>
     ELSE <<[v1 EXCEPT !.retained_plies = @ + 1], FALSE>>

(* ------------------------------- inputs -------------------------------- *)
\* the header blocks a game may carry
PlainTags == <<<<"Result", "1-0">>>>
EloTags(w, b) == <<<<"Result", "1-0">>, <<"WhiteElo", w>>, <<"BlackElo", b>>>>

\* the moves a game may carry: the SAN's fate, the position it leads to, its comment
MoveInputs(sans, keys, comments) == [san : sans, to : keys, comment : comments]

\* the concurrent runs read plain games over two positions
CoreInput == [free |-> TRUE, json |-> EmptyMap, corpus |-> <<>>, tags |-> {PlainTags, <<>>},
              moves |-> MoveInputs({"ok"}, 1..2, {""})]

\* the single-threaded runs read games with unparsable moves, book moves and
\* every position
GameInput == [free |-> TRUE, json |-> EmptyMap, corpus |-> <<>>, tags |-> {PlainTags},
              moves |-> MoveInputs({"ok", "nomove", "throw"}, Keys, {"", "book"})]

\* the sequences over S of length 1..n
SeqsUpTo(S, n) == UNION {[1..m -> S] : m \in 1..n}

\* the fixed corpora: one game per file, its players' Elo 2 and 2, 1 and 2 or -1
\* and 2, one to MaxMoves plain moves over two positions
EloGames == [tags : {EloTags("2", "2"), EloTags("1", "2"), EloTags("-1", "2")},
             moves : SeqsUpTo(MoveInputs({"ok"}, 1..2, {""}), MaxMoves)]
EloInputs == {[free |-> FALSE, json |-> EmptyMap, corpus |-> [f \in Files |-> <<g[f]>>],
               tags |-> {g[f].tags : f \in Files},
               moves |-> UNION {{g[f].moves[i] : i \in DOMAIN g[f].moves} : f \in Files}]
              : g \in [Files -> EloGames]}

\* header blocks with the engines' names, with a Variant tag
NameTags(w, b) == <<<<"Result", "1-0">>, <<"White", w>>, <<"Black", b>>>>
FrcTags == <<<<"Variant", "fischerandom">>, <<"Result", "1-0">>>>

\* the fixed corpora of the single-threaded filter runs: the first file holds one
\* game of engines sf and x (either colour, both sf, neither, Black's name
\* missing) or a Chess960 game, of one to MaxMoves moves, book moves among them;
\* every other file holds one plain game of one move
FilterGames ==
  [tags : {NameTags("sf", "x"), NameTags("x", "sf"), NameTags("sf", "sf"),
           NameTags("x", "x"), <<<<"Result", "1-0">>, <<"White", "sf">>>>, FrcTags},
   moves : SeqsUpTo(MoveInputs({"ok"}, Keys, {"", "book"}), MaxMoves)]
PlainGame == [tags |-> PlainTags, moves |-> <<[san |-> "ok", to |-> 1, comment |-> ""]>>]
FilterInputs ==
  {[free |-> FALSE, json |-> EmptyMap, corpus |-> [f \in Files |-> IF f = 1 THEN <<g>> ELSE <<PlainGame>>],
    tags |-> {g.tags, PlainTags},
    moves |-> {g.moves[i] : i \in DOMAIN g.moves} \cup {PlainGame.moves[1]}]
   : g \in FilterGames}

\* the fixed corpora of the runs over header blocks: the first file holds two
\* games, each with one of the header blocks below (no Result; no Elo tags; Elo
\* tags with numbers, one below the other; a WhiteElo that is no number; Elo
\* tags with text after the number and a blank before it; no BlackElo; engine
\* names; a Chess960 game) and one or two plain moves
TagBlocks ==
  {<<>>, PlainTags, EloTags("2", "2"), EloTags("1", "2"),
   <<<<"Result", "1-0">>, <<"WhiteElo", "x">>, <<"BlackElo", "2">>>>,
   <<<<"Result", "1-0">>, <<"WhiteElo", "2x">>, <<"BlackElo", " 2">>>>,
   <<<<"Result", "1-0">>, <<"WhiteElo", "2">>>>,
   NameTags("sf", "x") \o <<<<"WhiteElo", "2">>, <<"BlackElo", "2">>>>,
   NameTags("x", "sf"), FrcTags}
TagGames ==
  [tags : TagBlocks,
   moves : {<<[san |-> "ok", to |-> 1, comment |-> ""]>>,
            <<[san |-> "ok", to |-> 1, comment |-> ""],
              [san |-> "ok", to |-> 2, comment |-> ""]>>}]
TagInputs ==
  {[free |-> FALSE, json |-> EmptyMap,
    corpus |-> [f \in Files |-> IF f = 1 THEN <<g1, g2>> ELSE <<PlainGame>>],
    tags |-> {g1.tags, g2.tags, PlainTags},
    moves |-> {g1.moves[i] : i \in DOMAIN g1.moves} \cup {g2.moves[i] : i \in DOMAIN g2.moves}]
   : g1 \in TagGames, g2 \in TagGames}

\* the stream of the worker's file: the game being read
Game(w) == inp.corpus[par[w].file][par[w].games]

\* the header blocks the next game of the worker's stream can have
GameTags(w) ==
  IF pc[w] # "games" THEN {}
  ELSE IF inp.free THEN (IF games_read < MaxGames THEN inp.tags ELSE {})
  ELSE IF par[w].games < Len(inp.corpus[par[w].file])
       THEN {inp.corpus[par[w].file][par[w].games + 1].tags} ELSE {}

\* the moves the stream can hold next
NextMoves(w) ==
  IF pc[w] # "moves" THEN {}
  ELSE IF inp.free THEN (IF par[w].moves < MaxMoves THEN inp.moves ELSE {})
  ELSE IF par[w].moves < Len(Game(w).moves)
       THEN {Game(w).moves[par[w].moves + 1]} ELSE {}

\* whether the stream can be at the end of the game, at the end of the file
AtGameEnd(w) == IF inp.free THEN TRUE ELSE par[w].moves = Len(Game(w).moves)
AtEof(w) == IF inp.free THEN TRUE ELSE par[w].games = Len(inp.corpus[par[w].file])

(* ------------------------------ settings ------------------------------- *)
\* mutant: --countStopEarly is used whether or not --stopEarly is given
count_stop_early_Always(stop_early, countStopEarly) == Unsigned(countStopEarly)

\* main: the value of count_stop_early handed to process(), from the flag
\* --stopEarly and the value of --countStopEarly (1 when it is not given)
count_stop_early(stop_early, countStopEarly) ==
  IF ~stop_early THEN UINT_MAX ELSE Unsigned(countStopEarly)

\* what main uses for an argument that is not given: no --help, no --file and so
\* the files found in the directory, no --cdb, no --fixFEN
Defaults == [help |-> FALSE, file |-> FALSE, cdb |-> FALSE, fix_fens |-> FALSE,
             paths |-> DefaultPaths,
             allow_duplicates |-> FALSE, sprt_only |-> FALSE, regex_book |-> "",
             match_book_invert |-> FALSE]

\* mutant: the check of --saveCount against --omitMoveCounter is left out
SaveCountError_Never(save_count, omit_move_counter) == FALSE

\* main: --saveCount is given without --omitMoveCounter
SaveCountError(save_count, omit_move_counter) == ~omit_move_counter /\ save_count

\* main: unsigned int tb_limit is 7 with --cdb, else the int std::stoi made of
\* the value of --TBlimit (1 when it is not given), converted to unsigned
tb_limit(cdb, TBlimit) == IF cdb THEN Unsigned(7) ELSE Unsigned(TBlimit)

\* main: omit_mates is set by --cdb, else it is the flag --omitMates
omit_mates(cdb, omitMates) == cdb \/ omitMates

\* an argument of the command line, main's default when it is not given
Given(a, x) == IF x \in DOMAIN a THEN a[x] ELSE Defaults[x]

\* main's variables once the command line is read: the arguments, with
\* count_stop_early, tb_limit and omit_mates worked out and the defaults filled in
Settings(args) ==
  {[x \in DOMAIN a \cup DOMAIN Defaults \cup {"count_stop_early", "tb_limit", "omit_mates"} |->
      IF x = "count_stop_early" THEN count_stop_early(a.stop_early, a.countStopEarly)
      ELSE IF x = "tb_limit" THEN tb_limit(Given(a, "cdb"), a.TBlimit)
      ELSE IF x = "omit_mates" THEN omit_mates(Given(a, "cdb"), a.omitMates)
      ELSE Given(a, x)] : a \in args}

\* two pool threads, no filters
CoreOptions == Settings(
  [min_count : 0..MaxOpt, save_count : BOOLEAN, omit_move_counter : {TRUE},
   stop_early : BOOLEAN, countStopEarly : {1}, max_plies : {MaxOpt},
   TBlimit : {1}, omitMates : {FALSE}, min_Elo : {0}, regex_engine : {""},
   concurrency : {2}])

\* one or two pool threads, an Elo filter, for the two runs over one corpus;
\* --countStopEarly 0 or 1 with --stopEarly
EloOptions == Settings(
  {a \in [min_count : {2}, save_count : BOOLEAN, omit_move_counter : {TRUE},
          stop_early : BOOLEAN, countStopEarly : {0, 1}, max_plies : {MaxOpt},
          TBlimit : {1}, omitMates : {FALSE}, min_Elo : {-1, 2}, regex_engine : {""},
          concurrency : {1, 2}] :
     a.countStopEarly = 0 => (a.stop_early /\ a.concurrency = 1)})

\* one pool thread, every traversal setting: --countStopEarly 0 to 2, --TBlimit
\* 1, 3 or -1 (as an unsigned int, 4294967295), --cdb in place of the two flags
\* it stands for
GameOptions == Settings(
  {a \in [min_count : {1}, save_count : BOOLEAN, omit_move_counter : {TRUE},
          stop_early : BOOLEAN, countStopEarly : 0..MaxOpt, max_plies : 0..MaxOpt,
          TBlimit : {-1, 1, 3}, omitMates : BOOLEAN, cdb : BOOLEAN, min_Elo : {0},
          regex_engine : {""}, concurrency : {1}] :
     /\ a.cdb => (a.TBlimit = 1 /\ ~a.omitMates)
     /\ a.countStopEarly = 0 => a.stop_early})

\* one pool thread, the engine filter on, with a pattern std::regex accepts or
\* one it rejects, or off, --noFRC given or not (main never looks for it)
FilterOptions == Settings(
  [min_count : {1}, save_count : BOOLEAN, omit_move_counter : {TRUE},
   stop_early : {FALSE}, countStopEarly : {1}, max_plies : {1, MaxOpt},
   TBlimit : {1}, omitMates : {FALSE}, min_Elo : {0}, regex_engine : {"", "s.", "("},
   concurrency : {1}, noFRC : BOOLEAN])

\* one pool thread, an Elo filter or none, the engine filter on or off
TagOptions == Settings(
  [min_count : {1}, save_count : BOOLEAN, omit_move_counter : {TRUE},
   stop_early : {FALSE}, countStopEarly : {1}, max_plies : {MaxOpt},
   TBlimit : {1}, omitMates : {FALSE}, min_Elo : {0, 2}, regex_engine : {"", "sf|y"},
   concurrency : {1}])

(* ----------------------------- initial state --------------------------- *)
\* the state main starts from, whatever the settings and the corpus
Fresh ==
  /\ mainpc = "main"
  /\ files_chunked = <<>>
  /\ enqueued = 0
  /\ queue = <<>>
  /\ pc = [w \in Workers |-> "idle"]
  /\ task = [w \in Workers |-> <<>>]
  /\ par = [w \in Workers |-> [file |-> 0, games |-> 0, moves |-> 0]]
  /\ vis = [w \in Workers |-> NewVisitor]
  /\ loc = [w \in Workers |-> NoLocals]
  /\ zobrist_map = EmptyMap
  /\ fen_map = EmptyMap
  /\ out_file = <<>>
  /\ progress_output = 0
  /\ total_files = 0
  /\ total_games = 0
  /\ total_pos = 0
  /\ calls = [k \in Keys |-> 0]
  /\ news = [k \in Keys |-> 0]
  /\ fired = [k \in Keys |-> 0]
  /\ game_calls = [w \in Workers |-> 0]
  /\ applied = 0
  /\ games_read = 0
  /\ counted = {}
  /\ out_open = FALSE
  /\ move_failed = {}
  /\ read_failed = {}
  /\ meta_map = EmptyMap
  /\ warned = <<>>
  /\ probes = <<>>

InitWith(options, inputs) ==
  /\ opt \in options
  /\ inp \in inputs
  /\ run = 1
  /\ first = [counts |-> EmptyMap, counted |-> {}, min_Elo |-> 0]
  /\ Fresh

Init == InitWith(CoreOptions, {CoreInput}) \/ InitWith(GameOptions, {GameInput})

InitElo == InitWith(EloOptions, EloInputs)

InitFilter == InitWith(FilterOptions, FilterInputs)

InitTags == InitWith(TagOptions, TagInputs)

(* ------------------------------ metadata ------------------------------- *)
\* what meta_map holds for a file's test: found is FALSE when the map has no
\* record; an optional is <<>> without a value and <<v>> with the value v
NoRecord == [found |-> FALSE, book_depth |-> <<>>, book |-> <<>>, sprt |-> <<>>]
MetaRecords ==
  {NoRecord} \cup [found : {TRUE}, book_depth : {<<>>, <<1>>},
                    book : {<<>>, <<"b.epd.gz">>, <<"b.pgn">>}, sprt : {<<>>}]


\* ana_files' std::regex p(".epd"), a pattern std::regex accepts
RegexEpd == basic_regex(".epd")

\* ana_files under fix_fens: one of the three std::exit(1) is reached: no record
\* for the test, no book_depth and no book, no book_depth and an .epd book
MetadataError(meta) ==
  \/ ~meta.found
  \/ /\ meta.book_depth = <<>>
     /\ (meta.book = <<>> \/ regex_search(meta.book[1], RegexEpd))

\* the characters of the paths of the metadata runs, with their codes
Ascii ==
  [c \in {"-", ".", "/", "0", "1", "a", "b", "d", "e"} |->
     CASE c = "-" -> 45 [] c = "." -> 46 [] c = "/" -> 47 [] c = "0" -> 48
       [] c = "1" -> 49 [] c = "a" -> 97 [] c = "b" -> 98 [] c = "d" -> 100
       [] c = "e" -> 101]

\* the std::string with the given characters
Str(chars) == [i \in DOMAIN chars |-> Ascii[chars[i]]]

\* s.find_first_of(chars): the index of the first character of s that is in
\* chars, npos without one
find_first_of(s, chars) ==
  LET hits == {i \in 0..(Len(s) - 1) : s[i + 1] \in chars}
  IN IF hits = {} THEN npos ELSE CHOOSE i \in hits : \A j \in hits : i <= j

\* s.substr(0, n)
substr0(s, n) == IF n = npos \/ n > Len(s) THEN s ELSE SubSeq(s, 1, n)

\* the place of the last '/' of a path, 0 without one
LastSlash(path) ==
  LET at == {i \in DOMAIN path : path[i] = Ascii["/"]}
  IN IF at = {} THEN 0 ELSE CHOOSE i \in at : \A j \in at : j <= i

\* fs::path(pathname).filename().string(): what follows the last '/'
filename(path) == SubSeq(path, LastSlash(path) + 1, Len(path))

\* the place of the last character before place k that is no '/', 0 without one
LastNameEnd(path, k) ==
  LET at == {i \in 1..(k - 1) : path[i] # Ascii["/"]}
  IN IF at = {} THEN 0 ELSE CHOOSE i \in at : \A j \in at : j <= i

\* fs::path(pathname).parent_path().string(): the path up to the end of the
\* component before the last one. A path of nothing but '/' is its own parent;
\* the component before a name that follows the leading '/'s is the root
\* directory, the first '/'; a path that ends in '/' has an empty last component
parent_path(path) ==
  IF \A i \in DOMAIN path : path[i] = Ascii["/"] THEN path
  ELSE IF LastSlash(path) = 0 THEN <<>>
  ELSE IF LastNameEnd(path, LastSlash(path)) = 0 THEN <<Ascii["/"]>>
  ELSE SubSeq(path, 1, LastNameEnd(path, LastSlash(path)))

\* operator/ of fs::path for a right side that does not start with '/': a '/' is
\* put between the two unless the left side is empty or ends in one
Slash(left, right) ==
  IF left = <<>> THEN right
  ELSE IF left[Len(left)] = Ascii["/"] THEN left \o right
  ELSE left \o <<Ascii["/"]>> \o right

\* mutant: only '-' ends the test id
test_id_DashOnly(path) ==
  substr0(filename(path), find_first_of(filename(path), {Ascii["-"]}))

\* filename.substr(0, filename.find_first_of("-."))
test_id(path) ==
  substr0(filename(path), find_first_of(filename(path), {Ascii["-"], Ascii["."]}))

\* (path.parent_path() / test_id).string()
test_filename(path) == Slash(parent_path(path), test_id(path))

\* the metadata in <test_filename>.json on disk, NoRecord when there is no such
\* file
JsonOnDisk(key) == IF key \in DOMAIN inp.json THEN inp.json[key] ELSE NoRecord

Range(seq) == {seq[i] : i \in DOMAIN seq}

\* get_metadata: meta_map.find(test_filename) != meta_map.end()
Known(map, key) == key \in DOMAIN map

\* mutant: a duplicate ends the run also under --allowDuplicates
DuplicateIsFatal_Always(allow_duplicates) == TRUE

\* get_metadata: a duplicate that is printed ends the run
DuplicateIsFatal(allow_duplicates) == ~allow_duplicates

\* the loop of get_metadata over the file list; st holds meta_map, test_map, the
\* tests warned about, the .json files it tried to open and whether std::exit(1)
\* was called. OneFile is the body of the loop for a file with test id `id` and
\* test filename `tf`; test id, test filename, the state after the body and the
\* rest of the list are each worked out once and then named
RECURSIVE MetaLoop(_, _, _)
MetaLoop(files, allow_duplicates, st) ==
  IF files = <<>> THEN st
  ELSE LET OneFile(id, tf) ==
             LET warn == /\ id \in DOMAIN st.test_map
                         /\ st.test_map[id] # tf
                         /\ tf \notin Range(st.warned)
                 st1 == [st EXCEPT
                           !.test_map = IF id \in DOMAIN @ THEN @ ELSE Put(@, id, tf),
                           !.warned = IF warn THEN Append(@, tf) ELSE @,
                           !.exit = warn /\ DuplicateIsFatal(allow_duplicates)]
             IN IF st1.exit \/ Known(st1.meta_map, tf) THEN st1
                ELSE [st1 EXCEPT !.probes = Append(@, tf),
                                 !.meta_map = IF JsonOnDisk(tf).found
                                              THEN Put(@, tf, JsonOnDisk(tf)) ELSE @]
       IN CHOOSE r \in {IF s.exit THEN s ELSE MetaLoop(t, allow_duplicates, s) :
                          s \in {OneFile(i, f) : i \in {test_id(Head(files))},
                                                  f \in {test_filename(Head(files))}},
                          t \in {Tail(files)}} : TRUE

get_metadata(file_list, allow_duplicates) ==
  CHOOSE r \in {MetaLoop(l, allow_duplicates,
                          [meta_map |-> EmptyMap, test_map |-> EmptyMap, warned |-> <<>>,
                           probes |-> <<>>, exit |-> FALSE]) : l \in {file_list}} : TRUE

\* what a lookup of the test of a path in a metadata map gives
Lookup(map, path) ==
  IF test_filename(path) \in DOMAIN map THEN map[test_filename(path)] ELSE NoRecord

\* the predicate of filter_files_sprt: the file is removed
SprtRemoves(map, path) == ~(Lookup(map, path).found /\ Lookup(map, path).sprt = <<TRUE>>)

\* the predicate of filter_files_book, regex_book being main's std::regex: the
\* file is removed
BookRemoves(map, path, regex_book, invert) ==
  IF Lookup(map, path).found /\ Lookup(map, path).book # <<>>
  THEN LET match == regex_match(Lookup(map, path).book[1], regex_book)
       IN IF invert THEN match ELSE ~match
  ELSE TRUE

(* ------------------------------ main thread ---------------------------- *)
\* the file list after main's std::sort
files_pgn == sort(opt.paths)

\* the files as the tasks name them: each by its place in files_pgn
FileIndex == [i \in 1..Len(opt.paths) |-> i]

\* the files left in files_pgn by --SPRTonly and --matchBook, each named by its
\* place in the sorted list; regex is main's std::regex regex(regex_book)
process_files(map, regex) ==
  LET sprt(f) == ~opt.sprt_only \/ ~SprtRemoves(map, files_pgn[f])
      book(f) == opt.regex_book = ""
                   \/ ~BookRemoves(map, files_pgn[f], regex, opt.match_book_invert)
      Keep(f) == sprt(f) /\ book(f)
  IN SelectSeq(FileIndex, Keep)

\* ana_files: the record of the file's test in meta_map
MetaOf(f) == Lookup(meta_map, files_pgn[f])

\* ana_files: the move_counter handed to the file's Analyze
move_counter(f) ==
  IF opt.fix_fens /\ MetaOf(f).book_depth # <<>>
  THEN to_string(MetaOf(f).book_depth[1] + 1) ELSE ""

\* main constructs no std::regex: --matchBook is not given or its value is empty
NoRegex == [err |-> "", nfa |-> <<>>, sub_count |-> 0]

\* fs::exists(path): the file is on disk
exists(path) == path \notin inp.missing

\* main up to the loop of process(). --help prints the usage and main returns 0;
\* a file named with --file that is not on disk ends the process with
\* std::exit(1); the file list is sorted and checked; get_metadata reads the
\* tests' .json files; the file filters are applied, where std::regex
\* regex(regex_book) throws std::regex_error for a pattern it rejects, which
\* nothing catches: std::terminate ends the process; the settings are checked;
\* the output file is opened; process() splits the list into chunks and makes
\* the pool, whose threads start and find the queue empty
Startup ==
  /\ mainpc = "main"
  /\ IF opt.help
     THEN /\ mainpc' = "usage"
          /\ UNCHANGED <<out_open, metav, files_chunked>>
     ELSE IF opt.file /\ ~exists(opt.paths[1])
     THEN /\ mainpc' = "exit1"
          /\ UNCHANGED <<out_open, metav, files_chunked>>
     ELSE IF DuplicateFiles(files_pgn)
     THEN /\ mainpc' = "exit1"
          /\ UNCHANGED <<out_open, metav, files_chunked>>
     ELSE LET m == get_metadata(files_pgn, opt.allow_duplicates)
          IN /\ meta_map' = m.meta_map
             /\ warned' = m.warned
             /\ probes' = m.probes
             /\ \E regex \in {IF m.exit \/ opt.regex_book = "" THEN NoRegex
                                ELSE basic_regex(opt.regex_book)} :
                   IF m.exit
                   THEN /\ mainpc' = "exit1"
                        /\ UNCHANGED <<out_open, files_chunked>>
                   ELSE IF regex.err # ""
                   THEN /\ mainpc' = "aborted"
                        /\ UNCHANGED <<out_open, files_chunked>>
                   ELSE IF SaveCountError(opt.save_count, opt.omit_move_counter)
                   THEN /\ mainpc' = "exit1"
                        /\ UNCHANGED <<out_open, files_chunked>>
                   ELSE /\ mainpc' = "process"
                        /\ out_open' = TRUE
                        /\ files_chunked' =
                             split_chunks(process_files(m.meta_map, regex),
                                          4 * opt.concurrency)
  /\ UNCHANGED <<runs, move_failed, read_failed, opt, inp, enqueued, queue, pc, task,
                 par, vis, loc, shared, observers>>

\* process(), one turn of the loop over files_chunked: pool.enqueue puts the task
\* for the next chunk at the end of the pool's queue; the pool threads run
\* meanwhile
Enqueue ==
  /\ mainpc = "process"
  /\ enqueued < Len(files_chunked)
  /\ queue' = Append(queue, files_chunked[enqueued + 1])
  /\ enqueued' = enqueued + 1
  /\ UNCHANGED <<runs, metav, files_chunked, proc, opt, inp, mainpc, pc, task, par,
                 vis, loc, shared, observers>>


(* ------------------------------ the pool ------------------------------- *)
\* a pool thread takes the next task: ana_files on the chunk at the queue's head
TakeChunk(w) ==
  /\ mainpc = "process"
  /\ w <= opt.concurrency
  /\ pc[w] = "idle"
  /\ queue # <<>>
  /\ task' = [task EXCEPT ![w] = Head(queue)]
  /\ queue' = Tail(queue)
  /\ pc' = [pc EXCEPT ![w] = "file"]
  /\ UNCHANGED <<runs, metav, plan, proc, opt, inp, mainpc, par, vis, loc, shared, observers>>

\* another pool thread is running a task, or can take one from the queue, now
\* or when main has enqueued the next one
OthersRunning(w) ==
  \E x \in Workers \ {w} :
     x <= opt.concurrency
       /\ (pc[x] # "idle" \/ queue # <<>> \/ enqueued < Len(files_chunked))

\* how the process ends when pool thread w calls std::exit(1): exit runs the
\* destructors of the static zobrist_map and fen_map while the other pool threads
\* are not stopped; a thread that uses a table then works on a destroyed object,
\* which is undefined: the process exits with code 1 or dies from a signal
ExitOutcomes(w) == IF OthersRunning(w) THEN {"exit1", "crashed"} ELSE {"exit1"}

\* the size of the buffer of main's std::ofstream, in characters, and the most
\* characters a line of the output file has: a FEN with its move counters and
\* the newline
BUFSIZ == 8192
MaxLine == 92

\* what the output file can hold when the process ends in a pool thread: the
\* lines went into the buffer of main's out_file, which is written to the file
\* when it is full; std::exit does not destroy main's local out_file, so what is
\* in the buffer then is lost
OnDisk(lines) ==
  IF Len(lines) * MaxLine < BUFSIZ THEN {<<>>}
  ELSE {SubSeq(lines, 1, n) : n \in 0..Len(lines)}

\* ana_files, head of the loop: under fix_fens the metadata of the file's test is
\* looked up and std::exit(1) ends the process when it is unusable, the lines in
\* the buffer of the output file being lost; otherwise the file is opened, a
\* fresh Analyze and a StreamParser are made for it
OpenFile(w) ==
  /\ pc[w] = "file"
  /\ IF opt.fix_fens /\ MetadataError(MetaOf(Head(task[w])))
     THEN /\ mainpc' \in ExitOutcomes(w)
          /\ pc' = [x \in Workers |-> "exited"]
          /\ out_file' \in OnDisk(out_file)
          /\ UNCHANGED <<par, vis>>
     ELSE /\ par' = [par EXCEPT ![w] = [file |-> Head(task[w]), games |-> 0, moves |-> 0]]
          /\ vis' = [vis EXCEPT ![w] =
                        [NewVisitor EXCEPT !.move_counter = move_counter(Head(task[w]))]]
          /\ pc' = [pc EXCEPT ![w] = "games"]
          /\ UNCHANGED <<mainpc, out_file>>
  /\ UNCHANGED <<runs, metav, plan, proc, opt, inp, queue, task, loc, zobrist_map, fen_map,
                 progress_output, total_files, total_games, total_pos, observers>>

(* ------------------------------ the parser ----------------------------- *)
\* mutant: the increment is inside the try block, a failed file is not counted
CountFile_InTry(n, failed) == IF failed THEN n ELSE n + 1

\* ana_files: ++total_files after pgn_iterator returned, whether readGames came
\* to the end of the stream or an exception was caught
CountFile(n, failed) == n + 1

\* readGames reads a game's header block: header() per tag pair, then
\* startMoves(). A std::regex_error thrown in startMoves leaves readGames and is
\* caught in pgn_iterator: the message is printed, the rest of the stream is not
\* read; ana_files: ++total_files
NextGame(w, tags) ==
  /\ pc[w] = "games"
  /\ games_read' = games_read + 1
  /\ \E r \in {startMoves(headers(vis[w], tags))} :
        /\ vis' = [vis EXCEPT ![w] = r[1]]
        /\ IF r[3] # ""
           THEN /\ pc' = [pc EXCEPT ![w] = "plock"]
                /\ read_failed' = read_failed \cup {par[w].file}
                /\ total_files' = CountFile(total_files, TRUE)
                /\ UNCHANGED <<total_games, counted>>
           ELSE /\ pc' = [pc EXCEPT ![w] = IF r[2] THEN "skipped" ELSE "moves"]
                /\ total_games' = IF r[2] THEN total_games ELSE total_games + 1
                /\ counted' = IF r[2] THEN counted
                              ELSE counted \cup {<<par[w].file, par[w].games + 1>>}
                /\ UNCHANGED <<read_failed, total_files>>
  /\ par' = [par EXCEPT ![w].games = @ + 1, ![w].moves = 0]
  /\ game_calls' = [game_calls EXCEPT ![w] = 0]
  /\ UNCHANGED <<runs, metav, plan, out_open, move_failed, opt, inp, mainpc, queue, task, loc,
                 zobrist_map, fen_map, out_file, progress_output, total_pos, calls, news,
                 fired, applied>>

\* what Analyze::move leaves behind once the position was counted and any report is
\* done: new_entry_count, the early stop, retained_plies
FinishMove(w, v, is_new_entry) ==
  LET r == MoveTail(v, is_new_entry)
  IN /\ vis' = [vis EXCEPT ![w] = r[1]]
     /\ pc' = [pc EXCEPT ![w] = IF r[2] THEN "skipped" ELSE "moves"]
     /\ loc' = [loc EXCEPT ![w] = NoLocals]

\* uci::parseSan(board, move, moves) / board.makeMove fail on the SAN: parseSan
\* returns Move::NO_MOVE ("nomove") or an exception is thrown ("throw")
ParseFails(san) == san \in {"nomove", "throw"}

\* mutant: the Move::NO_MOVE branch returns without skipPgn(true)
AfterParseFailure_NoSkip(san) == IF san = "nomove" THEN "moves" ELSE "skipped"

\* where the failure branches of Analyze::move leave the parser: skipPgn(true) was
\* called, the rest of the game is skipped
AfterParseFailure(san) == "skipped"

\* Analyze::move up to and including lazy_emplace_l
Move(w, mv) ==
  /\ pc[w] = "moves"
  /\ par' = [par EXCEPT ![w].moves = @ + 1]
  /\ LET v == vis[w]
         k == mv.to
         v1 == [v EXCEPT !.board = makeMove(v.board, k)]
         skip == /\ vis' = [vis EXCEPT ![w] = v1]
                 /\ pc' = [pc EXCEPT ![w] = "skipped"]
                 /\ UNCHANGED <<loc, zobrist_map, calls, news, game_calls>>
     IN IF BudgetSpent(v)
        THEN /\ pc' = [pc EXCEPT ![w] = "skipped"]
             /\ UNCHANGED <<vis, loc, zobrist_map, calls, news, game_calls, applied,
                            move_failed>>
        ELSE IF ParseFails(mv.san)
        THEN /\ pc' = [pc EXCEPT ![w] = AfterParseFailure(mv.san)]
             /\ move_failed' = move_failed \cup {<<par[w].file, par[w].games>>}
             /\ UNCHANGED <<vis, loc, zobrist_map, calls, news, game_calls, applied>>
        ELSE /\ applied' = IF mv.comment # "book" THEN applied + 1 ELSE applied
             /\ move_failed' = move_failed
             /\ IF TbSkip(k) \/ MateSkip(k)
                THEN skip
                ELSE IF Counted(v1, k, mv.comment)
                THEN LET e == lazy_emplace_l(zobrist_map, k)
                     IN /\ zobrist_map' = e.map
                        /\ calls' = [calls EXCEPT ![k] = @ + 1]
                        /\ news' = [news EXCEPT ![k] = IF e.is_new THEN @ + 1 ELSE @]
                        /\ game_calls' = [game_calls EXCEPT ![w] = @ + 1]
                        /\ IF ReportTrigger(e.value)
                           THEN /\ loc' = [loc EXCEPT ![w] =
                                     [key |-> k, value |-> e.value, is_new_entry |-> e.is_new]]
                                /\ vis' = [vis EXCEPT ![w] = v1]
                                /\ pc' = [pc EXCEPT ![w] = "report"]
                           ELSE FinishMove(w, v1, e.is_new)
                ELSE /\ vis' = [vis EXCEPT ![w] = v1]
                     /\ pc' = pc
                     /\ UNCHANGED <<loc, zobrist_map, calls, news, game_calls>>
  /\ UNCHANGED <<runs, metav, plan, out_open, read_failed, opt, inp, mainpc, queue, task, fen_map,
                 out_file, progress_output, total_files, total_games, total_pos, fired,
                 games_read, counted>>

\* Analyze::move, the report trigger fired: total_pos++
Report(w) ==
  /\ pc[w] = "report"
  /\ total_pos' = total_pos + 1
  /\ fired' = [fired EXCEPT ![loc[w].key] = @ + 1]
  /\ pc' = [pc EXCEPT ![w] = IF opt.save_count THEN "insert" ELSE "lock"]
  /\ UNCHANGED <<runs, metav, plan, proc, opt, inp, mainpc, queue, task, par, vis, loc, zobrist_map, fen_map,
                 out_file, progress_output, total_files, total_games, calls, news,
                 game_calls, applied, games_read, counted>>

\* Analyze::move, save_count: the packed board goes to fen_map
Insert(w) ==
  /\ pc[w] = "insert"
  /\ fen_map' = fen_map_insert(fen_map, loc[w].key, Encode(vis[w].board))
  /\ FinishMove(w, vis[w], loc[w].is_new_entry)
  /\ UNCHANGED <<runs, metav, plan, proc, opt, inp, mainpc, queue, task, par, zobrist_map, out_file,
                 progress_output, total_files, total_games, total_pos, observers>>

\* mutant: the lock is taken without waiting for its holder
Acquire_NoWait(w) == progress_output' = w

\* std::lock_guard<std::mutex> lock(progress_output)
Acquire(w) == progress_output = 0 /\ progress_output' = w

\* Analyze::move, streaming: the lock is taken
Lock(w) ==
  /\ pc[w] = "lock"
  /\ Acquire(w)
  /\ pc' = [pc EXCEPT ![w] = "write"]
  /\ UNCHANGED <<runs, metav, plan, proc, opt, inp, mainpc, queue, task, par, vis, loc, zobrist_map, fen_map,
                 out_file, total_files, total_games, total_pos, observers>>

\* Analyze::move, streaming: the line is written and the lock_guard's scope ends
Write(w) ==
  /\ pc[w] = "write"
  /\ out_file' = Append(out_file, [fen |-> GetFen(vis[w].board, ~opt.omit_move_counter)])
  /\ progress_output' = 0
  /\ FinishMove(w, vis[w], loc[w].is_new_entry)
  /\ UNCHANGED <<runs, metav, plan, proc, opt, inp, mainpc, queue, task, par, zobrist_map, fen_map,
                 total_files, total_games, total_pos, observers>>

\* readGames reaches the end of the game (or skipped the rest of it): endPgn()
EndPgn(w) ==
  /\ IF pc[w] = "moves" THEN AtGameEnd(w) ELSE pc[w] = "skipped"
  /\ vis' = [vis EXCEPT ![w] = endPgn(vis[w])]
  /\ pc' = [pc EXCEPT ![w] = "games"]
  /\ UNCHANGED <<runs, metav, plan, proc, opt, inp, mainpc, queue, task, par, loc, shared, observers>>

\* readGames reaches the end of the stream; ana_files: ++total_files
FileDone(w) ==
  /\ pc[w] = "games"
  /\ AtEof(w)
  /\ total_files' = CountFile(total_files, FALSE)
  /\ pc' = [pc EXCEPT ![w] = "plock"]
  /\ UNCHANGED <<runs, metav, plan, proc, opt, inp, mainpc, queue, task, par, vis, loc, zobrist_map, fen_map,
                 out_file, progress_output, total_games, total_pos, observers>>

\* an exception escapes parser.readGames and is caught in pgn_iterator: the
\* message is printed, the rest of the stream is not read; ana_files: ++total_files
ReadError(w) ==
  /\ pc[w] \in {"games", "moves", "skipped"}
  /\ par[w].file \in inp.bad
  /\ read_failed' = read_failed \cup {par[w].file}
  /\ total_files' = CountFile(total_files, TRUE)
  /\ pc' = [pc EXCEPT ![w] = "plock"]
  /\ UNCHANGED <<runs, metav, plan, out_open, move_failed, opt, inp, mainpc, queue, task, par, vis, loc,
                 zobrist_map, fen_map, out_file, progress_output, total_games, total_pos,
                 observers>>

\* ana_files: the lock around the progress line is taken
ProgressLock(w) ==
  /\ pc[w] = "plock"
  /\ Acquire(w)
  /\ pc' = [pc EXCEPT ![w] = "print"]
  /\ UNCHANGED <<runs, metav, plan, proc, opt, inp, mainpc, queue, task, par, vis, loc, zobrist_map, fen_map,
                 out_file, total_files, total_games, total_pos, observers>>

\* ana_files: the progress line is printed, the lock released, the loop goes on
Progress(w) ==
  /\ pc[w] = "print"
  /\ progress_output' = 0
  /\ task' = [task EXCEPT ![w] = Tail(@)]
  /\ pc' = [pc EXCEPT ![w] = IF Tail(task[w]) = <<>> THEN "idle" ELSE "file"]
  /\ UNCHANGED <<runs, metav, plan, proc, opt, inp, mainpc, queue, par, vis, loc, zobrist_map, fen_map,
                 out_file, total_files, total_games, total_pos, observers>>

(* --------------------------- main, after the pool ----------------------- *)
\* mutant: the count on a line is the one the position had when it was reported
CountLines_AtReport(order) ==
  [i \in 1..Len(order) |->
     [fen |-> GetFen(Decode(fen_map[order[i]]), FALSE), c0 |-> opt.min_count]]

\* the lines main writes for fen_map, in the order `order` iterates it
CountLines(order) ==
  [i \in 1..Len(order) |->
     [fen |-> GetFen(Decode(fen_map[order[i]]), FALSE),
      c0 |-> Count(zobrist_map, order[i])]]

\* the orders in which a map's keys can be iterated
Orders(S) == {s \in [1..Cardinality(S) -> S] : \A i, j \in DOMAIN s : s[i] = s[j] => i = j}

\* mutant: pool.wait() returns as soon as the queue is empty
wait_QueueOnly == queue = <<>>

\* pool.wait(): the queue is empty and no pool thread runs a task
wait == queue = <<>> /\ \A w \in Workers : pc[w] = "idle"

\* the loop of process() is through and pool.wait() returns; main writes the
\* counted lines when save_count is on
Finish ==
  /\ mainpc = "process"
  /\ enqueued = Len(files_chunked)
  /\ wait
  /\ mainpc' = "done"
  /\ IF opt.save_count
     THEN \E order \in Orders(DOMAIN fen_map) : out_file' = out_file \o CountLines(order)
     ELSE out_file' = out_file
  /\ UNCHANGED <<runs, metav, plan, proc, opt, inp, queue, pc, task, par, vis, loc, zobrist_map, fen_map,
                 progress_output, total_files, total_games, total_pos, observers>>

Next ==
  \/ Startup
  \/ Enqueue
  \/ Finish
  \/ \E w \in Workers :
       \/ TakeChunk(w)
       \/ OpenFile(w)
       \/ \E tags \in GameTags(w) : NextGame(w, tags)
       \/ \E mv \in NextMoves(w) : Move(w, mv)
       \/ Report(w)
       \/ Insert(w)
       \/ Lock(w)
       \/ Write(w)
       \/ EndPgn(w)
       \/ FileDone(w)
       \/ ProgressLock(w)
       \/ Progress(w)

Spec == Init /\ [][Next]_vars

\* the single-threaded runs over the fixed corpora with engine names
SpecFilter == InitFilter /\ [][Next]_vars

\* the single-threaded runs over files of two games with every header block
SpecTags == InitTags /\ [][Next]_vars

(* --------------------- start-up checks and errors ---------------------- *)
\* runs with unreadable files
NextErr == Next \/ \E w \in Workers : ReadError(w)

\* the streams of the runs below: plain games over two positions; bad holds the
\* files whose stream fails somewhere, meta the metadata found for each file's test
ErrInput(bad, json) ==
  [free |-> TRUE, corpus |-> <<>>, tags |-> {PlainTags},
   moves |-> MoveInputs({"ok"}, 1..2, {""}), bad |-> bad, json |-> json]

\* ChunkFiles files with paths of one character each: with one pool thread the
\* chunks hold two files
ChunkPaths == [i \in 1..ChunkFiles |-> <<i>>]

\* file lists of every shape, prefixes and repeated paths among them, one thread
ListOptions == Settings(
  [min_count : {1}, save_count : {FALSE}, omit_move_counter : {TRUE},
   stop_early : {FALSE}, countStopEarly : {1}, max_plies : {MaxOpt},
   TBlimit : {1}, omitMates : {FALSE}, min_Elo : {0}, regex_engine : {""},
   concurrency : {1}, paths : UNION {[1..n -> Paths] : n \in 1..MaxPaths}])

\* --saveCount and --omitMoveCounter given or not, one thread, ChunkFiles files
\* in chunks of two
ReadOptions == Settings(
  [min_count : {1}, save_count : BOOLEAN, omit_move_counter : BOOLEAN,
   stop_early : {FALSE}, countStopEarly : {1}, max_plies : {MaxOpt},
   TBlimit : {1}, omitMates : {FALSE}, min_Elo : {0}, regex_engine : {""},
   concurrency : {1}, paths : {ChunkPaths}])

\* two pool threads, a chunk per file
PoolOptions == Settings(
  [min_count : {1}, save_count : {FALSE}, omit_move_counter : {TRUE},
   stop_early : {FALSE}, countStopEarly : {1}, max_plies : {MaxOpt},
   TBlimit : {1}, omitMates : {FALSE}, min_Elo : {0}, regex_engine : {""},
   concurrency : {2}])

\* --fixFEN with two pool threads
FixOptions == Settings(
  [min_count : {1}, save_count : {FALSE}, omit_move_counter : {TRUE},
   stop_early : {FALSE}, countStopEarly : {1}, max_plies : {MaxOpt},
   TBlimit : {1}, omitMates : {FALSE}, min_Elo : {0}, regex_engine : {""},
   concurrency : {2}, fix_fens : {TRUE}])

\* --help given or not; the one file named with --file or found in the directory;
\* --matchBook not given or with a pattern std::regex rejects
MainOptions == Settings(
  [min_count : {1}, save_count : {FALSE}, omit_move_counter : {TRUE},
   stop_early : {FALSE}, countStopEarly : {1}, max_plies : {MaxOpt},
   TBlimit : {1}, omitMates : {FALSE}, min_Elo : {0}, regex_engine : {""},
   concurrency : {1}, paths : {<<<<1>>>>}, help : BOOLEAN, file : BOOLEAN,
   regex_book : {"", "("}])

\* the file named with --file is on disk or it is not
MainInputs ==
  {[free |-> TRUE, corpus |-> <<>>, tags |-> {PlainTags},
    moves |-> MoveInputs({"ok"}, 1..2, {""}), bad |-> {}, json |-> EmptyMap,
    missing |-> m] : m \in {{}, {<<1>>}}}

InitErr ==
  \/ InitWith(MainOptions, MainInputs) /\ (inp.missing # {} => opt.file)
  \/ InitWith(ListOptions, {ErrInput({}, EmptyMap)})
  \/ InitWith(ReadOptions, {ErrInput(bad, EmptyMap) : bad \in SUBSET (1..2)})
  \/ InitWith(PoolOptions, {ErrInput(bad, EmptyMap) : bad \in {{1}, Files}})
  \/ InitWith(FixOptions, {ErrInput({}, json) : json \in [Range(DefaultPaths) -> MetaRecords]})

SpecErr == InitErr /\ [][NextErr]_vars

(* ------------------------ the runs with early stop --------------------- *)
\* one pool thread, --stopEarly given or not, --countStopEarly 0, 1 or 2, lines
\* written at once or --saveCount, min_count 1 or 2
StopOptions == Settings(
  [min_count : {1, 2}, save_count : BOOLEAN, omit_move_counter : {TRUE},
   stop_early : BOOLEAN, countStopEarly : 0..MaxOpt, max_plies : {MaxOpt},
   TBlimit : {1}, omitMates : {FALSE}, min_Elo : {0}, regex_engine : {""},
   concurrency : {1}])

\* plain games over two positions, so that a game comes to positions that an
\* earlier game, or the game itself, has counted
InitStop == InitWith(StopOptions, {CoreInput})

SpecStop == InitStop /\ [][Next]_vars

(* ------------------------ runs under fair scheduling ------------------- *)
\* LiveFiles files of one plain game each, the games of one move to the same
\* position; bad holds the files whose stream fails
LiveInputs ==
  {[free |-> FALSE, json |-> EmptyMap, corpus |-> [f \in 1..LiveFiles |-> <<PlainGame>>],
    tags |-> {PlainTags}, moves |-> {PlainGame.moves[1]}, bad |-> bad] :
     bad \in {{}, {2}}}

\* one or two pool threads, a chunk per file
LiveOptions == Settings(
  [min_count : {1, 2}, save_count : BOOLEAN, omit_move_counter : {TRUE},
   stop_early : {FALSE}, countStopEarly : {1}, max_plies : {MaxOpt},
   TBlimit : {1}, omitMates : {FALSE}, min_Elo : {0}, regex_engine : {""},
   concurrency : {1, 2}, paths : {[i \in 1..LiveFiles |-> <<i>>]}])

InitLive == InitWith(LiveOptions, LiveInputs)

\* the steps of pool thread w
Thread(w) ==
  \/ TakeChunk(w)
  \/ OpenFile(w)
  \/ \E tags \in GameTags(w) : NextGame(w, tags)
  \/ \E mv \in NextMoves(w) : Move(w, mv)
  \/ Report(w)
  \/ Insert(w)
  \/ Lock(w)
  \/ Write(w)
  \/ EndPgn(w)
  \/ FileDone(w)
  \/ ReadError(w)
  \/ ProgressLock(w)
  \/ Progress(w)

NextLive == Startup \/ Enqueue \/ Finish \/ \E w \in Workers : Thread(w)

\* the scheduler lets main and every pool thread run again and again: a thread
\* that can take a step, and can go on taking it, takes one
SpecLive ==
  /\ InitLive /\ [][NextLive]_vars
  /\ WF_vars(Startup) /\ WF_vars(Enqueue) /\ WF_vars(Finish)
  /\ \A w \in Workers : WF_vars(Thread(w))

(* ------------------------- the planner's runs -------------------------- *)
\* lists of one to MaxList files, one or two pool threads
PlanOptions == Settings(
  [min_count : {1}, save_count : {FALSE}, omit_move_counter : {TRUE},
   stop_early : {FALSE}, countStopEarly : {1}, max_plies : {MaxOpt},
   TBlimit : {1}, omitMates : {FALSE}, min_Elo : {0}, regex_engine : {""},
   concurrency : {1, 2}, paths : {[i \in 1..n |-> <<i>>] : n \in 1..MaxList}])

\* files that hold no game
EmptyInput == [free |-> TRUE, json |-> EmptyMap, corpus |-> <<>>, tags |-> {}, moves |-> {}]

InitPlan == InitWith(PlanOptions, {EmptyInput})

\* the steps of a run over files without games: the parser comes to the end of
\* each stream at once, no visitor callback is made
NextPlan ==
  \/ Startup
  \/ Enqueue
  \/ Finish
  \/ \E w \in Workers :
       \/ TakeChunk(w)
       \/ OpenFile(w)
       \/ FileDone(w)
       \/ ProgressLock(w)
       \/ Progress(w)

SpecPlan == InitPlan /\ [][NextPlan]_vars

(* ------------------------- the metadata runs --------------------------- *)
\* the paths of the metadata runs: two files of test a in directory d, two files
\* of a test a in directory e, files whose base name has a '.' or a '-' before the
\* last '-', a file without '-' and '.', a file without directory
MetaPaths ==
  {Str(<<"d", "/", "a", "-", "0">>), Str(<<"d", "/", "a", "-", "1">>),
   Str(<<"e", "/", "a", "-", "0">>), Str(<<"e", "/", "a", "-", "1">>),
   Str(<<"d", "/", "a", ".", "b", "-", "0">>),
   Str(<<"d", "/", "a", "-", "b", "-", "0">>), Str(<<"d", "/", "b">>),
   Str(<<"a", "-", "0">>)}

\* the file lists of one to MetaFiles different paths, as the directory gives them
MetaLists ==
  {sort(l) : l \in {q \in UNION {[1..n -> MetaPaths] : n \in 1..MetaFiles} :
                      \A i, j \in DOMAIN q : q[i] = q[j] => i = j}}

\* two records a test's .json can hold
SprtRecord == [found |-> TRUE, book_depth |-> <<1>>, book |-> <<"b.epd">>, sprt |-> <<TRUE>>]
BookRecord == [found |-> TRUE, book_depth |-> <<2>>, book |-> <<"b.pgn">>, sprt |-> <<>>]

\* the .json files on disk: for every test; only beside names that are no test
\* filenames; for one test; none
MetaDisks ==
  {[k \in {Str(<<"d", "/", "a">>), Str(<<"e", "/", "a">>), Str(<<"d", "/", "b">>),
            Str(<<"a">>)} |->
      IF k \in {Str(<<"d", "/", "a">>), Str(<<"d", "/", "b">>)} THEN SprtRecord
      ELSE BookRecord],
   [k \in {Str(<<"d", "/", "a", ".", "b">>), Str(<<"d", "/", "a", "-", "b">>)} |->
      SprtRecord],
   [k \in {Str(<<"d", "/", "a">>)} |-> BookRecord],
   EmptyMap}

\* every file holds one plain game of one move
MetaInputs ==
  {[free |-> FALSE, json |-> disk, corpus |-> [f \in 1..MetaFiles |-> <<PlainGame>>],
    tags |-> {PlainTags}, moves |-> {PlainGame.moves[1]}] : disk \in MetaDisks}

\* one pool thread; --allowDuplicates, --fixFEN, --SPRTonly given or not,
\* --matchBook with or without --matchBookInvert or not given
MetaOptions == Settings(
  [min_count : {1}, save_count : BOOLEAN, omit_move_counter : {TRUE},
   stop_early : {FALSE}, countStopEarly : {1}, max_plies : {MaxOpt},
   TBlimit : {1}, omitMates : {FALSE}, min_Elo : {0}, regex_engine : {""},
   concurrency : {1}, paths : MetaLists, allow_duplicates : BOOLEAN,
   fix_fens : BOOLEAN, sprt_only : BOOLEAN, regex_book : {"", "b.*d"},
   match_book_invert : BOOLEAN])

InitMeta == InitWith(MetaOptions, MetaInputs)

SpecMeta == InitMeta /\ [][Next]_vars

(* ----------------------- the runs with FEN tags ------------------------ *)
\* the FEN values of the games: ending in " 0 1"; in "10 1"; in " 0 2"; in " 5 1"
FenValues == {"p 0 1", "q 10 1", "q 0 2", "p 5 1"}

\* what the parser's buffer holds after the value of a FEN tag: a NUL; the end of
\* the tag's line; the end of a longer text that was in the buffer before
BufferRests == {"", "\"]", " 0 1"}

\* a game of one move, with a FEN tag or from the start position
FenGames ==
  {[tags |-> PlainTags \o <<<<"FEN", fen, rest>>>>,
    moves |-> <<[san |-> "ok", to |-> 3, comment |-> ""]>>] :
     fen \in FenValues, rest \in BufferRests}
    \cup {PlainGame}

\* the files of the runs: d/a-0 of a test with an .epd book of depth 7, d/b of a
\* test with a .pgn book and no book_depth
FenPaths == <<Str(<<"d", "/", "a", "-", "0">>), Str(<<"d", "/", "b">>)>>

FenDisk ==
  [k \in {Str(<<"d", "/", "a">>), Str(<<"d", "/", "b">>)} |->
     IF k = Str(<<"d", "/", "a">>)
     THEN [found |-> TRUE, book_depth |-> <<7>>, book |-> <<"b.epd">>, sprt |-> <<>>]
     ELSE [found |-> TRUE, book_depth |-> <<>>, book |-> <<"b.pgn">>, sprt |-> <<>>]]

\* both files hold the same two games
FenInputs ==
  {[free |-> FALSE, json |-> FenDisk, corpus |-> [f \in 1..2 |-> <<g1, g2>>],
    tags |-> {PlainTags}, moves |-> {PlainGame.moves[1]}] :
     g1 \in FenGames, g2 \in FenGames}

\* one pool thread, with and without --fixFEN
FenOptions == Settings(
  [min_count : {1}, save_count : BOOLEAN, omit_move_counter : {TRUE},
   stop_early : {FALSE}, countStopEarly : {1}, max_plies : {MaxOpt},
   TBlimit : {1}, omitMates : {FALSE}, min_Elo : {0}, regex_engine : {""},
   concurrency : {1}, paths : {FenPaths}, fix_fens : BOOLEAN])

InitFen == InitWith(FenOptions, FenInputs)

SpecFen == InitFen /\ [][Next]_vars

(* ------------------- two runs over the same corpus --------------------- *)
\* the program is run again on the same corpus with --minElo 0 and otherwise the
\* same settings; what run 1 counted is kept for the comparison
Rerun ==
  /\ mainpc = "done"
  /\ run = 1
  /\ run' = 2
  /\ first' = [counts |-> zobrist_map, counted |-> counted, min_Elo |-> opt.min_Elo]
  /\ opt' = [opt EXCEPT !.min_Elo = 0]
  /\ mainpc' = "main"
  /\ files_chunked' = <<>>
  /\ enqueued' = 0
  /\ queue' = <<>>
  /\ pc' = [w \in Workers |-> "idle"]
  /\ task' = [w \in Workers |-> <<>>]
  /\ par' = [w \in Workers |-> [file |-> 0, games |-> 0, moves |-> 0]]
  /\ vis' = [w \in Workers |-> NewVisitor]
  /\ loc' = [w \in Workers |-> NoLocals]
  /\ zobrist_map' = EmptyMap
  /\ fen_map' = EmptyMap
  /\ out_file' = <<>>
  /\ progress_output' = 0
  /\ total_files' = 0
  /\ total_games' = 0
  /\ total_pos' = 0
  /\ calls' = [k \in Keys |-> 0]
  /\ news' = [k \in Keys |-> 0]
  /\ fired' = [k \in Keys |-> 0]
  /\ game_calls' = [w \in Workers |-> 0]
  /\ applied' = 0
  /\ games_read' = 0
  /\ counted' = {}
  /\ out_open' = FALSE
  /\ move_failed' = {}
  /\ read_failed' = {}
  /\ meta_map' = EmptyMap
  /\ warned' = <<>>
  /\ probes' = <<>>
  /\ UNCHANGED inp

NextElo == Next \/ Rerun

SpecElo == InitElo /\ [][NextElo]_vars

\* the lines of the output file, each with the number of times it is there
LineBag(lines) ==
  [l \in Range(lines) |-> Cardinality({i \in DOMAIN lines : lines[i] = l})]

\* the program is run again on the same corpus with the same settings but for
\* --concurrency c; the count table, total_pos and the output file of run 1 are
\* kept for the comparison
RunAgain(c) ==
  /\ mainpc = "done"
  /\ run = 1
  /\ run' = 2
  /\ first' = [counts |-> zobrist_map, counted |-> counted, min_Elo |-> opt.min_Elo,
               total_pos |-> total_pos, lines |-> LineBag(out_file),
               concurrency |-> opt.concurrency]
  /\ opt' = [opt EXCEPT !.concurrency = c]
  /\ mainpc' = "main"
  /\ files_chunked' = <<>>
  /\ enqueued' = 0
  /\ queue' = <<>>
  /\ pc' = [w \in Workers |-> "idle"]
  /\ task' = [w \in Workers |-> <<>>]
  /\ par' = [w \in Workers |-> [file |-> 0, games |-> 0, moves |-> 0]]
  /\ vis' = [w \in Workers |-> NewVisitor]
  /\ loc' = [w \in Workers |-> NoLocals]
  /\ zobrist_map' = EmptyMap
  /\ fen_map' = EmptyMap
  /\ out_file' = <<>>
  /\ progress_output' = 0
  /\ total_files' = 0
  /\ total_games' = 0
  /\ total_pos' = 0
  /\ calls' = [k \in Keys |-> 0]
  /\ news' = [k \in Keys |-> 0]
  /\ fired' = [k \in Keys |-> 0]
  /\ game_calls' = [w \in Workers |-> 0]
  /\ applied' = 0
  /\ games_read' = 0
  /\ counted' = {}
  /\ out_open' = FALSE
  /\ move_failed' = {}
  /\ read_failed' = {}
  /\ meta_map' = EmptyMap
  /\ warned' = <<>>
  /\ probes' = <<>>
  /\ UNCHANGED inp

\* the corpora of the repeated runs: the first two files hold one plain game of
\* one or two moves over two positions, so that a position can be reached after
\* one move in one game and after two in the other; any further file holds one
\* plain game of one move
PlainMoves(keys) == [i \in DOMAIN keys |-> [san |-> "ok", to |-> keys[i], comment |-> ""]]
RepeatInputs ==
  {[free |-> FALSE, json |-> EmptyMap,
    corpus |-> [f \in Files |->
                  IF f \in DOMAIN g THEN <<[tags |-> PlainTags, moves |-> PlainMoves(g[f])]>>
                  ELSE <<PlainGame>>],
    tags |-> {PlainTags}, moves |-> MoveInputs({"ok"}, 1..2, {""})] :
     g \in {<<<<1, 2>>, <<2>>>>, <<<<1, 2>>, <<2, 1>>>>, <<<<1>>, <<1, 1>>>>}}

\* one or two pool threads; lines written at once with or without the move
\* counters, or --saveCount
RepeatOptions == Settings(
  [min_count : {1, 2}, save_count : {FALSE}, omit_move_counter : BOOLEAN,
   stop_early : BOOLEAN, countStopEarly : {1}, max_plies : {MaxOpt},
   TBlimit : {1}, omitMates : {FALSE}, min_Elo : {0}, regex_engine : {""},
   concurrency : {1, 2}]
  \cup
  [min_count : {1, 2}, save_count : {TRUE}, omit_move_counter : {TRUE},
   stop_early : BOOLEAN, countStopEarly : {1}, max_plies : {MaxOpt},
   TBlimit : {1}, omitMates : {FALSE}, min_Elo : {0}, regex_engine : {""},
   concurrency : {1, 2}])

InitRepeat == InitWith(RepeatOptions, RepeatInputs)

NextRepeat == Next \/ \E c \in 1..2 : RunAgain(c)

SpecRepeat == InitRepeat /\ [][NextRepeat]_vars


(* =============================== claims ================================ *)
\* the lines of the output file that hold the position with hash k
LinesFor(k) == {i \in DOMAIN out_file : out_file[i].fen.pos = k}

\* the positions the output file holds
KeysWritten == {out_file[i].fen.pos : i \in DOMAIN out_file}

\* the positions whose count has reached min_count
Popular == {k \in DOMAIN zobrist_map : zobrist_map[k] >= opt.min_count}

\* a worker between lazy_emplace_l and the end of Analyze::move
Reporting(w) == pc[w] \in {"report", "insert", "lock", "write"}

StopEarly == opt.count_stop_early # UINT_MAX

\* the number count_stop_early holds, for the runs in which it is not UINT_MAX
StopCount == ValueOf(opt.count_stop_early)

\* C1: at every instant the value stored for a key equals the number of completed
\* increment_or_insert calls for it by all workers together (an absent key counts
\* as 0); a call that returned value v returned is_new exactly when v = 1, and v
\* never exceeds the value stored.
C1_CountEqualsCalls ==
  /\ \A k \in Keys : Count(zobrist_map, k) = calls[k]
  /\ \A w \in Workers : Reporting(w) =>
        /\ loc[w].value >= 1
        /\ loc[w].is_new_entry <=> (loc[w].value = 1)
        /\ loc[w].value <= Count(zobrist_map, loc[w].key)

\* both workers have counted positions in their current games and one key was
\* incremented more than once
C1_Witness ==
  /\ game_calls[1] >= 1 /\ game_calls[2] >= 1
  /\ \E k \in DOMAIN zobrist_map : zobrist_map[k] >= 2

\* C2: for each key, exactly one increment_or_insert call returns is_new = true
\* over the whole run and all threads; every other call returns false.
C2_NewExactlyOnce ==
  \A k \in Keys : news[k] = IF calls[k] >= 1 THEN 1 ELSE 0

\* both workers stand on the same position, both having counted it
C2_Witness ==
  /\ pc[1] = "moves" /\ pc[2] = "moves"
  /\ game_calls[1] = 1 /\ game_calls[2] = 1
  /\ vis[1].board.pos = vis[2].board.pos
  /\ calls[vis[1].board.pos] = 2

\* C3: streaming mode, stopEarly off, min_count >= 1: once all workers have
\* finished, a position has a line in the output file iff its final count is
\* >= min_count.
C3_StreamedIffPopular ==
  (mainpc = "done" /\ ~opt.save_count /\ ~StopEarly /\ opt.min_count >= 1) =>
     \A k \in Keys : (LinesFor(k) # {}) <=> (k \in Popular)

\* a finished streaming run with one position written and another counted but
\* below min_count
C3_Witness ==
  /\ mainpc = "done" /\ ~opt.save_count /\ ~StopEarly /\ opt.min_count = 2
  /\ \E k1, k2 \in DOMAIN zobrist_map :
        /\ zobrist_map[k1] >= 2 /\ LinesFor(k1) # {}
        /\ zobrist_map[k2] = 1 /\ LinesFor(k2) = {}

\* C4, the state part: the report trigger has fired at most once per key; in
\* streaming mode a key has at most one line; in save_count mode a key of the
\* canonical table is one whose trigger fired.
C4_Once ==
  \A k \in Keys :
     /\ fired[k] <= 1
     /\ (~opt.save_count /\ mainpc # "done") => Cardinality(LinesFor(k)) <= fired[k]
     /\ ~opt.save_count => Cardinality(LinesFor(k)) <= 1
     /\ k \in DOMAIN fen_map => opt.save_count /\ fired[k] = 1

\* C4, the step part: an entry enters the canonical table only in the step of the
\* worker whose call raised the key's count to min_count, and is never changed or
\* removed afterwards.
C4_WriteOnce ==
  /\ \A k \in DOMAIN fen_map : k \in DOMAIN fen_map' /\ fen_map'[k] = fen_map[k]
  /\ \A k \in DOMAIN fen_map' \ DOMAIN fen_map :
        \E w \in Workers : /\ pc[w] = "insert"
                           /\ loc[w].key = k
                           /\ loc[w].value = opt.min_count
                           /\ fen_map'[k] = Encode(vis[w].board)

\* C4: for every key the report trigger fires at most once over the whole run under
\* any interleaving: at most one line is written for it in streaming mode, and in
\* save_count mode the canonical table receives its entry only from the call that
\* raised the count to min_count and never overwrites it.
C4_ReportAtMostOnce == [](C4_Once) /\ [][C4_WriteOnce]_vars

\* a key visited more often than min_count, reported once
C4_Witness ==
  \E k \in DOMAIN zobrist_map :
     /\ zobrist_map[k] > opt.min_count
     /\ fired[k] = 1
     /\ opt.concurrency = 2
     /\ (opt.save_count /\ k \in DOMAIN fen_map) \/ (~opt.save_count /\ LinesFor(k) # {})

\* C5: the number of increment_or_insert calls a game makes between its
\* start_moves and its end_pgn is at most max_plies.
C5_PlyBudget == \A w \in Workers : game_calls[w] <= opt.max_plies

\* a game that used up its budget and was skipped at the next move
C5_Witness ==
  \E w \in Workers :
     /\ pc[w] = "skipped"
     /\ opt.max_plies >= 1
     /\ vis[w].retained_plies = opt.max_plies
     /\ game_calls[w] = opt.max_plies
     /\ par[w].moves > opt.max_plies

\* whether every call of the worker's current game returned is_new = true
AllNew(w) ==
  game_calls[w] = vis[w].new_entry_count
                  + (IF Reporting(w) /\ loc[w].is_new_entry THEN 1 ELSE 0)

\* a game that was skipped by the early stop: its last call did not advance
\* retained_plies
EarlyStopped(w) == pc[w] = "skipped" /\ vis[w].retained_plies < game_calls[w]

\* a call of the worker's game has raised new_entry_count to N
RaisedTo(w, N) == vis[w].new_entry_count = N /\ vis[w].new_entry_count >= 1

\* a game all of whose calls were new makes at most N calls and, once stopped
\* early, has made exactly N; when that game is the only one of the run,
\* min_count = 1 and the mode is streaming, N lines are written
ExactlyCalls(w, N) ==
  /\ AllNew(w) => game_calls[w] <= N
  /\ (AllNew(w) /\ EarlyStopped(w)) =>
        /\ game_calls[w] = N
        /\ (games_read = 1 /\ opt.min_count = 1 /\ ~opt.save_count)
           => Len(out_file) = N

\* C6 as stated, for every N: with stopEarly on and count_stop_early = N, a game
\* makes no further call after the call that raised its new_entry_count to N, and
\* a game all of whose positions are unseen makes exactly N calls (N lines with
\* min_count = 1).
C6_AsClaimed ==
  StopEarly =>
    \A w \in Workers :
       /\ RaisedTo(w, StopCount) => pc[w] = "skipped"
       /\ ExactlyCalls(w, StopCount)

\* C6, amended: with stopEarly on and count_stop_early = N >= 1, a game whose
\* new_entry_count has reached N is skipped there and then (it makes no further
\* call), and the early stop ends a game only there; so a game all of whose calls
\* were new makes at most N calls and, once stopped early, has made exactly N;
\* when that game is the only one of the run, min_count = 1 and the mode is
\* streaming, N lines are written. With N = 0 a game all of whose calls were new
\* is not ended by the early stop.
C6_EarlyStop ==
  /\ (StopEarly /\ StopCount >= 1) =>
        \A w \in Workers :
           /\ vis[w].new_entry_count <= StopCount
           /\ vis[w].new_entry_count = StopCount => pc[w] = "skipped"
           /\ EarlyStopped(w) => vis[w].new_entry_count = StopCount
           /\ ExactlyCalls(w, StopCount)
  /\ (StopEarly /\ StopCount = 0) =>
        \A w \in Workers : AllNew(w) => ~EarlyStopped(w)

\* the only game of the run was stopped after two new positions, two lines written
C6_Witness ==
  \E w \in Workers :
     /\ opt.count_stop_early = Unsigned(2) /\ opt.max_plies >= 2
     /\ pc[w] = "skipped" /\ vis[w].new_entry_count = 2 /\ game_calls[w] = 2
     /\ games_read = 1 /\ opt.min_count = 1 /\ ~opt.save_count
     /\ Len(out_file) = 2

RECURSIVE SumC0(_)
SumC0(lines) == IF lines = <<>> THEN 0 ELSE Head(lines).c0 + SumC0(Tail(lines))

\* C7: stopEarly off, min_count = 1, save_count on, no engine or Elo filter, no TB
\* or mate exclusion: the c0 counts of the output lines sum to the number of
\* increment_or_insert calls of the run, which is the number of applied non-book
\* moves that passed the ply budget.
C7_CountsSumToCalls ==
  (/\ mainpc = "done" /\ ~StopEarly /\ opt.min_count = 1 /\ opt.save_count
   /\ opt.regex_engine = "" /\ opt.min_Elo = 0 /\ ~TbOn /\ ~opt.omit_mates)
  => /\ SumC0(out_file) = SumOver(calls, Keys)
     /\ SumC0(out_file) = applied

\* a finished run of that kind with a book move read and a position counted twice
C7_Witness ==
  /\ mainpc = "done" /\ ~StopEarly /\ opt.min_count = 1 /\ opt.save_count
  /\ ~TbOn /\ ~opt.omit_mates
  /\ \E i \in DOMAIN out_file : out_file[i].c0 >= 2
  /\ Len(out_file) >= 2
  /\ "book" \in {m.comment : m \in inp.moves}

\* C8: save_count mode: nothing is written to the output file before all workers
\* have finished; afterwards there is exactly one line per canonical-table entry,
\* the keys written are exactly the keys whose final count is >= min_count, and
\* each line carries its key's final count.
C8_CountedOutput ==
  opt.save_count =>
    /\ mainpc # "done" => out_file = <<>>
    /\ (mainpc = "done" /\ opt.min_count >= 1) =>
          /\ Len(out_file) = Cardinality(DOMAIN fen_map)
          /\ \A k \in DOMAIN fen_map : Cardinality(LinesFor(k)) = 1
          /\ KeysWritten = Popular
          /\ \A i \in DOMAIN out_file :
                out_file[i].c0 = Count(zobrist_map, out_file[i].fen.pos)

\* a finished save_count run: one key above min_count, another counted but not
\* written
C8_Witness ==
  /\ opt.save_count /\ mainpc = "done" /\ opt.min_count = 2
  /\ \E i \in DOMAIN out_file : out_file[i].c0 > opt.min_count
  /\ \E k \in DOMAIN zobrist_map : zobrist_map[k] = 1 /\ k \notin KeysWritten

\* the position has N pieces or fewer, N being the tb_limit of the run: the
\* value of --TBlimit, 7 under --cdb
AtMostLimit(k) == LessEq(Unsigned(PieceCount(k)), opt.tb_limit)

\* C9: with TBlimit N > 1 every counted and every written position has more than
\* N pieces; with omitMates every counted and every written position has a legal
\* move; a game whose board shows a position failing either test is skipped, and
\* that move made no count-table update.
C9_TbAndMates ==
  /\ \A k \in DOMAIN zobrist_map \cup KeysWritten \cup DOMAIN fen_map :
        /\ TbOn => ~AtMostLimit(k)
        /\ (opt.TBlimit > 1 /\ ~opt.cdb) => PieceCount(k) > opt.TBlimit
        /\ opt.omit_mates => HasLegalMoves(k)
  /\ \A w \in Workers :
        LET k == vis[w].board.pos
        IN (k # STARTPOS /\ ( (TbOn /\ AtMostLimit(k))
                              \/ (opt.omit_mates /\ ~HasLegalMoves(k)) ))
           => pc[w] = "skipped" /\ k \notin DOMAIN zobrist_map

\* a game skipped on a position with too few pieces after it counted a position,
\* the output holding a line
C9_Witness ==
  \E w \in Workers :
     /\ opt.TBlimit > 1 /\ ~opt.cdb /\ opt.omit_mates
     /\ pc[w] = "skipped"
     /\ PieceCount(vis[w].board.pos) <= opt.TBlimit
     /\ game_calls[w] >= 1
     /\ out_file # <<>>


\* what C10 compares once both runs are over: the games counted and every
\* position's final count in the minElo-K run against the minElo-0 run
EloRunBelow ==
  /\ first.counted \subseteq counted
  /\ \A k \in Keys : Count(first.counts, k) <= Count(zobrist_map, k)

\* C10 as claimed: for two runs over the same corpus whose settings differ only in
\* minElo (K, then 0), the games counted with minElo K are among those counted
\* with minElo 0 and no position's final count is larger with minElo K.
C10_AsClaimed == (run = 2 /\ mainpc = "done") => EloRunBelow

\* C10, amended: the same, for K >= 0 and runs with stopEarly off, or with a
\* single worker thread and count_stop_early >= 1.
C10_EloMonotone ==
  (/\ run = 2 /\ mainpc = "done"
   /\ first.min_Elo >= 0
   /\ ~StopEarly \/ (opt.concurrency = 1 /\ StopCount >= 1)) => EloRunBelow

\* both runs are over, stopEarly off, K >= 0; minElo K removed a game, kept
\* another, and a position's count is smaller for it
C10_Witness ==
  /\ run = 2 /\ mainpc = "done" /\ ~StopEarly /\ first.min_Elo >= 0
  /\ first.counted # {} /\ first.counted # counted
  /\ \E k \in DOMAIN first.counts : first.counts[k] < Count(zobrist_map, k)

\* C11: with min_count = 0 no position is ever reported: the report trigger never
\* fires, total_pos stays 0, no line is written, the canonical table stays empty;
\* the count table is updated all the same (it holds every completed call).
C11_NeverReported ==
  opt.min_count = 0 =>
    /\ \A k \in Keys : fired[k] = 0
    /\ \A w \in Workers : ~Reporting(w)
    /\ total_pos = 0
    /\ out_file = <<>>
    /\ fen_map = EmptyMap
    /\ \A k \in Keys : Count(zobrist_map, k) = calls[k]

\* a finished run with min_count = 0 that counted one position twice and another
\* once
C11_Witness ==
  /\ opt.min_count = 0 /\ mainpc = "done"
  /\ \E k1, k2 \in DOMAIN zobrist_map : zobrist_map[k1] >= 2 /\ zobrist_map[k2] = 1
  /\ out_file = <<>>

\* a worker inside a lock_guard's scope: about to write a position line or the
\* progress line
InGuard(w) == pc[w] \in {"write", "print"}

\* C12, the state part: a worker that writes a position line or the progress line
\* holds the mutex, so no two workers are writing at the same time.
C12_Holder ==
  /\ \A w \in Workers : InGuard(w) <=> progress_output = w
  /\ \A w1, w2 \in Workers : (InGuard(w1) /\ InGuard(w2)) => w1 = w2

\* C12, the step part: the output file changes only in the step of a worker that
\* holds the mutex (streaming) or in main's step after all workers have finished
\* (save_count).
C12_Writer ==
  out_file' # out_file =>
    \/ \E w \in Workers : /\ pc[w] = "write" /\ progress_output = w /\ ~opt.save_count
                           /\ \A o \in Workers \ {w} : pc'[o] = pc[o]
    \/ /\ opt.save_count /\ mainpc = "process" /\ mainpc' = "done"
       /\ queue = <<>> /\ \A w \in Workers : pc[w] = "idle"

\* C12: at no instant are two threads writing to the shared output stream: position
\* lines and the progress line are written under the one mutex, the save_count
\* lines by main after all workers have finished.
C12_SerializedOutput == [](C12_Holder) /\ [][C12_Writer]_vars

\* one worker is about to write a line while the other waits for the mutex
C12_Witness ==
  \E w1, w2 \in Workers :
     /\ pc[w1] = "write" /\ progress_output = w1
     /\ pc[w2] \in {"lock", "plock"}

\* C19: without --stopEarly the early-stop threshold is the largest unsigned value
\* whatever --countStopEarly is, and no game is ended because of the new entries
\* it created: every call of a game advances retained_plies, so its counted plies
\* end only by the ply budget, a skip condition or the end of the game.
C19_NoStopWithoutFlag ==
  ~opt.stop_early =>
    /\ opt.count_stop_early = UINT_MAX
    /\ \A w \in Workers :
          /\ ~EarlyStopped(w)
          /\ pc[w] \in {"moves", "skipped"} => game_calls[w] = vis[w].retained_plies
          /\ Reporting(w) => game_calls[w] = vis[w].retained_plies + 1

\* without --stopEarly, --countStopEarly 1: a game goes on after its second new
\* entry
C19_Witness ==
  \E w \in Workers :
     /\ ~opt.stop_early /\ opt.countStopEarly = 1
     /\ vis[w].new_entry_count = 2 /\ pc[w] = "moves" /\ game_calls[w] = 2

\* the game the worker's parser is in (or was last in) is one in which a move
\* failed
CurrentFailed(w) == <<par[w].file, par[w].games>> \in move_failed

\* C14, the state part: a game in which a move failed is not counting any more.
C14_Stopped ==
  \A w \in Workers : CurrentFailed(w) => pc[w] # "moves" /\ ~Reporting(w)

\* C14, the step part: the failing move changes neither the count table nor the
\* visitor; a worker standing on a failed game makes no call; no count ever
\* decreases or disappears; and a game is started from the visitor's initial
\* state (do_filter apart, which startMoves sets anew).
C14_Steps ==
  /\ move_failed' # move_failed => zobrist_map' = zobrist_map /\ vis' = vis
  /\ \A w \in Workers :
        (CurrentFailed(w) /\ par'[w] = par[w]) => game_calls'[w] = game_calls[w]
  /\ \A k \in Keys : Count(zobrist_map', k) >= Count(zobrist_map, k)
  /\ \A w \in Workers :
        par'[w].games = par[w].games + 1
        => [vis[w] EXCEPT !.do_filter = FALSE] = NewVisitor

\* C14: when resolving or applying a move fails, that game makes no further
\* count-table update, the counts it added stay in the table, and the later games
\* of the file are processed from a freshly reset visitor.
C14_FailedMoveSkipsGame == [](C14_Stopped) /\ [][C14_Steps]_vars

\* the first game of a file failed on a move after it had counted a position; the
\* second game of the same file has counted a position
C14_Witness ==
  \E w \in Workers :
     /\ <<par[w].file, 1>> \in move_failed
     /\ par[w].games = 2 /\ pc[w] = "moves" /\ game_calls[w] >= 1
     /\ opt.concurrency = 1
     /\ SumOver(calls, Keys) > game_calls[w]

\* the move the worker's parser delivers next, for a fixed corpus
NextMove(w) == Game(w).moves[par[w].moves + 1]

\* the worker's next step is Analyze::move on a move that is applied to the board
AppliesNext(w) ==
  /\ pc[w] = "moves" /\ par[w].moves < Len(Game(w).moves)
  /\ vis[w].retained_plies < opt.max_plies
  /\ NextMove(w).san = "ok"

\* the move is a book move, or engine filtering is on and the side to move after
\* it is not the filter side
Uncounted(w) ==
  \/ NextMove(w).comment = "book"
  \/ vis[w].do_filter /\ vis[w].filter_side # SideToMove(NextMove(w).to)

\* C20, the step part: a book move, or a move to a position whose side to move is
\* not the filter side, is applied to the board, makes no increment_or_insert call,
\* fires no report and leaves retained_plies and new_entry_count as they are.
C20_Step ==
  \A w \in Workers :
     (AppliesNext(w) /\ Uncounted(w) /\ par'[w].moves = par[w].moves + 1) =>
        /\ vis'[w].board.pos = NextMove(w).to
        /\ vis'[w].board.ply = vis[w].board.ply + 1
        /\ zobrist_map' = zobrist_map /\ calls' = calls /\ game_calls' = game_calls
        /\ total_pos' = total_pos /\ fired' = fired
        /\ fen_map' = fen_map /\ out_file' = out_file
        /\ vis'[w].retained_plies = vis[w].retained_plies
        /\ vis'[w].new_entry_count = vis[w].new_entry_count
        /\ pc'[w] = "moves"

\* C20, the state part: only counted moves use up the ply budget, so the budget
\* starts at the first move that is counted.
C20_Budget ==
  \A w \in Workers :
     pc[w] \in {"moves", "skipped"} => vis[w].retained_plies = game_calls[w]

\* C20: a book move, or a move leading to a position whose side to move is not the
\* filter side while engine filtering is on, is still applied to the board but
\* makes no increment_or_insert call, fires no report and leaves retained_plies and
\* new_entry_count unchanged; it does not count against max_plies.
C20_UncountedMoves == [](C20_Budget) /\ [][C20_Step]_vars

\* max_plies = 1, filtering for White's engine: the first move, after which Black
\* is to move, was applied but not counted, the second was counted
C20_Witness ==
  \E w \in Workers :
     /\ opt.max_plies = 1 /\ vis[w].do_filter /\ vis[w].filter_side = "WHITE"
     /\ par[w].file = 1 /\ par[w].moves = 2 /\ vis[w].board.ply = 2
     /\ pc[w] = "moves"
     /\ Game(w).moves[1].comment = "" /\ SideToMove(Game(w).moves[1].to) = "BLACK"
     /\ game_calls[w] = 1 /\ vis[w].retained_plies = 1

\* the header block carries [Variant "fischerandom"]
IsFischerandom(tags) == \E i \in DOMAIN tags : tags[i] = <<"Variant", "fischerandom">>

\* C18: with --noFRC a game whose Variant header is fischerandom is skipped at
\* startMoves: it is not counted in total_games, makes no increment_or_insert call
\* and writes no output.
C18_NoFRCSkipsGame ==
  opt.noFRC =>
     /\ \A c \in counted : ~IsFischerandom(inp.corpus[c[1]][c[2]].tags)
     /\ \A w \in Workers :
           vis[w].board.chess960 => /\ game_calls[w] = 0
                                    /\ pc[w] \notin {"moves", "report", "insert", "lock", "write"}

\* no pool thread has started anything and nothing was counted or written
NothingDone ==
  /\ queue = <<>> /\ \A w \in Workers : pc[w] = "idle"
  /\ total_files = 0 /\ total_games = 0 /\ total_pos = 0 /\ games_read = 0
  /\ DOMAIN zobrist_map = {} /\ DOMAIN fen_map = {}
  /\ out_file = <<>>

\* C13: with --saveCount and without --omitMoveCounter the process exits with
\* code 1 before any work: no file is analysed, the count table and the canonical
\* table stay empty, the output file is neither created nor written.
C13_SaveCountNeedsOmit ==
  (opt.save_count /\ ~opt.omit_move_counter /\ mainpc # "main") =>
     /\ mainpc = "exit1"
     /\ ~out_open
     /\ NothingDone

\* main has exited on that combination
C13_Witness == mainpc = "exit1" /\ opt.save_count /\ ~opt.omit_move_counter

\* the files in which an exception has escaped the parser are not read any further
C15_Abandoned ==
  \A w \in Workers :
     pc[w] \in {"games", "moves", "skipped", "report", "insert", "lock", "write"} =>
        par[w].file \notin read_failed

\* the failure does not end the process, and every file is counted in total_files
\* at the end, the failed ones too
C15_Completes ==
  /\ read_failed # {} => mainpc \in {"process", "done"}
  /\ mainpc = "done" => total_files = Len(opt.paths)

\* the step in which the exception is caught: total_files grows by one, the rest
\* of the worker's chunk and the other chunks stay to be processed, the counts
\* stay as they are
C15_Step ==
  read_failed' # read_failed =>
     /\ total_files' = total_files + 1
     /\ task' = task /\ queue' = queue /\ mainpc' = mainpc
     /\ zobrist_map' = zobrist_map /\ fen_map' = fen_map /\ out_file' = out_file
     /\ \A w \in Workers : pc'[w] # pc[w] => pc'[w] = "plock"

\* C15: when an exception escapes the parser the rest of the file is abandoned,
\* total_files is still incremented for it, the remaining files of the chunk and
\* all other chunks are still processed and the process does not terminate.
C15_ReadErrorIsLocal == [](C15_Abandoned /\ C15_Completes) /\ [][C15_Step]_vars

\* one thread, chunks of two files: the first file of a chunk failed after a game
\* of it was counted, the run went on to the end and counted a game of another file
C15_Witness ==
  /\ mainpc = "done" /\ opt.concurrency = 1 /\ Len(opt.paths) = ChunkFiles
  /\ 1 \in read_failed /\ <<1, 1>> \in counted
  /\ \E c \in counted : c[1] \notin read_failed
  /\ total_files = ChunkFiles

\* a is a prefix of b
IsPrefix(a, b) == Len(a) <= Len(b) /\ SubSeq(b, 1, Len(a)) = a

\* some entry of the file list is a prefix of another entry (or equal to it)
PrefixPair ==
  \E i, j \in DOMAIN opt.paths : i # j /\ IsPrefix(opt.paths[i], opt.paths[j])

\* C16: when the start-up check of the file list succeeds, no entry of the list is
\* a prefix of another entry, so no path occurs twice; when some entry is a prefix
\* of another the process exits with code 1 before any file is analysed.
C16_PrefixFreeList ==
  /\ mainpc \in {"process", "done"} => ~PrefixPair
  /\ (PrefixPair /\ mainpc # "main") => (mainpc = "exit1" /\ ~out_open /\ NothingDone)

\* a list of three paths that was not given in sorted order passed the check and
\* all three files were processed
C16_Witness ==
  /\ mainpc = "done" /\ Len(opt.paths) = 3 /\ opt.paths # files_pgn
  /\ total_files = 3

\* the file's test has no record in meta_map
NoMetadata(f) == ~JsonOnDisk(test_filename(files_pgn[f])).found

\* no game of a file without metadata is parsed or counted
C17_NotParsed ==
  opt.fix_fens =>
     /\ \A w \in Workers :
           pc[w] \in {"games", "moves", "skipped", "report", "insert", "lock", "write",
                      "plock", "print"}
              => ~NoMetadata(par[w].file)
     /\ \A c \in counted : ~NoMetadata(c[1])
     /\ mainpc \in {"exit1", "crashed"} => \A w \in Workers : pc[w] = "exited"

\* the step of a pool thread that stands before such a file ends the process
C17_Step ==
  \A w \in Workers :
     (opt.fix_fens /\ pc[w] = "file" /\ NoMetadata(Head(task[w])) /\ pc'[w] # pc[w]) =>
        /\ mainpc' = "exit1"
        /\ total_games' = total_games /\ games_read' = games_read
        /\ zobrist_map' = zobrist_map /\ fen_map' = fen_map

\* C17: with fixFEN, when a file's test has no metadata record the process
\* terminates with exit code 1 and no game of that file is parsed or counted.
C17_MissingMetadataExits == [](C17_NotParsed) /\ [][C17_Step]_vars

\* the value of a header tag of a game, "" when the game has no such tag
TagValue(tags, key) ==
  IF \E i \in DOMAIN tags : tags[i][1] = key
  THEN tags[CHOOSE i \in DOMAIN tags : tags[i][1] = key][2] ELSE ""

\* the engine regex matches the White, the Black name of the worker's game
WhiteMatches(w) ==
  regex_match(TagValue(Game(w).tags, "White"), basic_regex(opt.regex_engine))
BlackMatches(w) ==
  regex_match(TagValue(Game(w).tags, "Black"), basic_regex(opt.regex_engine))

\* the worker is in a game that passed startMoves with the engine regex set
Filtering(w) == opt.regex_engine # "" /\ pc[w] = "moves"

\* the White or the Black tag of the game is missing or empty
NameMissing(tags) == TagValue(tags, "White") = "" \/ TagValue(tags, "Black") = ""

\* with the engine regex set, a game with a missing name is skipped at startMoves,
\* whatever the other name is: no move of it is applied and it is not counted in
\* total_games; a game that passed startMoves has both names and is counted in
\* total_games
C21_Names ==
  opt.regex_engine # "" =>
    /\ \A w \in Workers :
          /\ (/\ pc[w] \in {"moves", "skipped", "report", "insert", "lock", "write"}
              /\ NameMissing(Game(w).tags)) =>
                /\ pc[w] = "skipped" /\ par[w].moves = 0 /\ game_calls[w] = 0
                /\ <<par[w].file, par[w].games>> \notin counted
          /\ Filtering(w) =>
                /\ ~NameMissing(Game(w).tags)
                /\ <<par[w].file, par[w].games>> \in counted
    /\ \A c \in counted : ~NameMissing(inp.corpus[c[1]][c[2]].tags)
    /\ total_games = Cardinality(counted)

\* the worker's next step applies a move and makes, or does not make, the
\* increment_or_insert call for the position
CountsNext(w) == game_calls'[w] = game_calls[w] + 1
AppliedStep(w) == AppliesNext(w) /\ par'[w].moves = par[w].moves + 1

\* exactly one name matches: filter_side is that colour and a position is counted
\* exactly when it is no book position and that side is to move; both names match:
\* filtering is off and every non-book position is counted
C21_OneOrBoth(w) ==
  /\ (WhiteMatches(w) /\ ~BlackMatches(w)) =>
        vis[w].do_filter /\ vis[w].filter_side = "WHITE"
  /\ (BlackMatches(w) /\ ~WhiteMatches(w)) =>
        vis[w].do_filter /\ vis[w].filter_side = "BLACK"
  /\ (WhiteMatches(w) /\ BlackMatches(w)) => ~vis[w].do_filter

C21_OneOrBothStep(w) ==
  /\ (WhiteMatches(w) /\ ~BlackMatches(w)) =>
        (CountsNext(w) <=> (NextMove(w).comment # "book"
                              /\ SideToMove(NextMove(w).to) = "WHITE"))
  /\ (BlackMatches(w) /\ ~WhiteMatches(w)) =>
        (CountsNext(w) <=> (NextMove(w).comment # "book"
                              /\ SideToMove(NextMove(w).to) = "BLACK"))
  /\ (WhiteMatches(w) /\ BlackMatches(w)) =>
        (CountsNext(w) <=> NextMove(w).comment # "book")

\* C21 as stated: when neither name matches, filtering is disabled and every
\* non-book position is counted (the other two cases as in the claim).
C21_AsClaimed ==
  [](\A w \in Workers : Filtering(w) =>
        /\ C21_OneOrBoth(w)
        /\ (~WhiteMatches(w) /\ ~BlackMatches(w)) => ~vis[w].do_filter)
  /\ [][\A w \in Workers : (Filtering(w) /\ AppliedStep(w)) =>
           /\ C21_OneOrBothStep(w)
           /\ (~WhiteMatches(w) /\ ~BlackMatches(w)) =>
                 (CountsNext(w) <=> NextMove(w).comment # "book")]_vars

\* C21, amended: with an engine regex set (a pattern std::regex accepts, or no
\* game passes startMoves), a game in which the White or the Black name is
\* missing is skipped at startMoves and not counted in total_games; for a game
\* that passed the Result and Elo checks and has both names, which is counted
\* in total_games: if exactly one of the names matches, filter_side is that
\* colour and only positions with that side to move are counted; if both match,
\* filtering is off and every non-book position is counted; if neither matches,
\* filtering stays on with filter side none and no position of the game is
\* counted.
C21_EngineFilter ==
  []C21_Names /\
  [](\A w \in Workers : Filtering(w) =>
        /\ C21_OneOrBoth(w)
        /\ (~WhiteMatches(w) /\ ~BlackMatches(w)) =>
              (vis[w].do_filter /\ vis[w].filter_side = "NONE" /\ game_calls[w] = 0))
  /\ [][\A w \in Workers : (Filtering(w) /\ AppliedStep(w)) =>
           /\ C21_OneOrBothStep(w)
           /\ (~WhiteMatches(w) /\ ~BlackMatches(w)) => ~CountsNext(w)]_vars

\* a game of two engines that the regex does not match passed startMoves, two
\* moves without a book comment were applied and no position was counted
C21_Witness ==
  \E w \in Workers :
     /\ Filtering(w) /\ ~WhiteMatches(w) /\ ~BlackMatches(w)
     /\ TagValue(Game(w).tags, "White") # "" /\ TagValue(Game(w).tags, "Black") # ""
     /\ <<par[w].file, par[w].games>> \in counted
     /\ par[w].moves = 2 /\ vis[w].board.ply = 2
     /\ \A i \in 1..2 : Game(w).moves[i].comment = ""
     /\ game_calls[w] = 0

\* an Elo tag's value as a number, 0 when the tag is absent or no number
TagElo(tags, key) == StoiOrZero(TagValue(tags, key))

HasResultTag(tags) == \E i \in DOMAIN tags : tags[i][1] = "Result"

\* the game has no Result header or one of its Elos is below min_Elo
FailsResultOrElo(tags) ==
  \/ ~HasResultTag(tags)
  \/ TagElo(tags, "WhiteElo") < opt.min_Elo
  \/ TagElo(tags, "BlackElo") < opt.min_Elo

\* the game passes every check of startMoves
PassesStartMoves(tags) ==
  /\ ~FailsResultOrElo(tags)
  /\ opt.regex_engine # "" => (TagValue(tags, "White") # "" /\ TagValue(tags, "Black") # "")

\* the worker is between startMoves and endPgn of a game
InGame(w) == pc[w] \in {"moves", "skipped", "report", "insert", "lock", "write"}

\* the games of the corpus, as <<file, index>>
CorpusGames ==
  {c \in (DOMAIN inp.corpus) \X (1..2) : c[2] <= Len(inp.corpus[c[1]])}

\* C22: a game without a Result header, or with a WhiteElo or BlackElo (0 when the
\* tag is absent or no number) below min_Elo, is skipped at startMoves: it makes no
\* increment_or_insert call and is not counted in total_games; at the end of the
\* run total_games is the number of games that passed every check of startMoves.
C22_SkippedAtStart ==
  /\ \A w \in Workers :
        (InGame(w) /\ FailsResultOrElo(Game(w).tags)) =>
           /\ pc[w] = "skipped" /\ par[w].moves = 0 /\ game_calls[w] = 0
           /\ <<par[w].file, par[w].games>> \notin counted
  /\ mainpc = "done" =>
        total_games =
          Cardinality({c \in CorpusGames : PassesStartMoves(inp.corpus[c[1]][c[2]].tags)})

\* a finished run with minElo 2 over a file whose first game has a WhiteElo that
\* is no number and whose second game has both Elos at 2: one game was counted
C22_Witness ==
  /\ mainpc = "done" /\ opt.min_Elo = 2 /\ opt.regex_engine = ""
  /\ TagValue(inp.corpus[1][1].tags, "WhiteElo") = "x"
  /\ inp.corpus[1][2].tags = EloTags("2", "2")
  /\ total_games = 1 /\ counted = {<<1, 2>>}
  /\ DOMAIN zobrist_map # {}

\* the per-game members of the visitor
PerGame(v) ==
  [board |-> v.board, hasResult |-> v.hasResult, filter_side |-> v.filter_side,
   retained_plies |-> v.retained_plies, new_entry_count |-> v.new_entry_count,
   white |-> v.white, black |-> v.black, whiteElo |-> v.whiteElo, blackElo |-> v.blackElo]

\* the colour startMoves filters for, from the game's own names
OwnFilterSide(w) ==
  IF opt.regex_engine = "" THEN "NONE"
  ELSE IF WhiteMatches(w) THEN "WHITE" ELSE IF BlackMatches(w) THEN "BLACK" ELSE "NONE"

\* C23: after every endPgn the visitor's per-game state equals its initial state
\* (board at the start position with the Chess960 flag cleared, hasResult false,
\* filter side none, retained_plies and new_entry_count 0, names empty, Elos 0), so
\* whether a game is counted, its filter side and the board it starts from follow
\* from its own headers, whatever game came before it in the file.
C23_ResetAtEndPgn ==
  \A w \in Workers :
     /\ pc[w] = "games" => PerGame(vis[w]) = PerGame(NewVisitor)
     /\ InGame(w) =>
           /\ <<par[w].file, par[w].games>> \in counted <=> PassesStartMoves(Game(w).tags)
           /\ vis[w].board.chess960 = IsFischerandom(Game(w).tags)
           /\ vis[w].board.ply = 0 => vis[w].board.pos = STARTPOS
           /\ pc[w] = "moves" =>
                 /\ vis[w].filter_side = OwnFilterSide(w)
                 /\ vis[w].retained_plies = game_calls[w]

\* the second game of a file has no Result header and is skipped, after a first
\* game of Chess960 with a Result header that was counted and had two moves applied
C23_Witness ==
  \E w \in Workers :
     /\ par[w].file = 1 /\ par[w].games = 2 /\ pc[w] = "skipped"
     /\ inp.corpus[1][1].tags = FrcTags /\ Len(inp.corpus[1][1].moves) = 2
     /\ inp.corpus[1][2].tags = <<>>
     /\ counted = {<<1, 1>>} /\ DOMAIN zobrist_map = {1, 2}
     /\ ~vis[w].board.chess960 /\ ~vis[w].hasResult

\* the chunks put end to end
RECURSIVE Flatten(_)
Flatten(chunks) == IF chunks = <<>> THEN <<>> ELSE Head(chunks) \o Flatten(Tail(chunks))

\* the step of main that calls process(), which plans the chunks
Plans == mainpc = "main" /\ mainpc' = "process"

\* the chunks that the loop of process() has still to enqueue
ToEnqueue == SubSeq(files_chunked, enqueued + 1, Len(files_chunked))

\* n / d rounded up
CeilDiv(n, d) == (n + d - 1) \div d

\* C24 as stated: the planner partitions the list into 4 x concurrency contiguous
\* chunks.
C24_AsClaimed ==
  [][Plans => /\ Flatten(files_chunked') = FileIndex
              /\ Len(files_chunked') = 4 * opt.concurrency]_vars

\* C24, amended: for a non-empty list of n files and concurrency c >= 1 the
\* planner partitions the list into contiguous chunks of s = ceil(n / (4 c)) files,
\* the last one possibly shorter but not empty; there are ceil(n / s) chunks, which
\* is at most 4 c.
C24_ChunkPlan ==
  [][Plans =>
       LET n == Len(opt.paths)
           size == CeilDiv(n, 4 * opt.concurrency)
           q == files_chunked'
       IN /\ Flatten(q) = FileIndex
          /\ Len(q) = CeilDiv(n, size)
          /\ Len(q) <= 4 * opt.concurrency
          /\ \A i \in 1..Len(q) :
                /\ Len(q[i]) >= 1 /\ Len(q[i]) <= size
                /\ i < Len(q) => Len(q[i]) = size]_vars

\* five files and one thread: three chunks were planned, the last of one file
C24_Witness ==
  /\ mainpc = "process" /\ opt.concurrency = 1
  /\ files_chunked = <<<<1, 2>>, <<3, 4>>, <<5>>>>

(* ------------------------- C27: the metadata key ----------------------- *)
\* where the base name of a path starts
BaseStart(path) ==
  LET slashes == {i \in DOMAIN path : path[i] = Ascii["/"]}
  IN IF slashes = {} THEN 1 ELSE 1 + CHOOSE i \in slashes : \A j \in slashes : j <= i

\* the path cut before the last character of the base name that is in chars
CutAtLast(path, chars) ==
  LET at == {i \in BaseStart(path)..Len(path) : path[i] \in chars}
  IN IF at = {} THEN path
     ELSE SubSeq(path, 1, (CHOOSE i \in at : \A j \in at : j <= i) - 1)

\* the path cut before the first character of the base name that is in chars
CutAtFirst(path, chars) ==
  LET at == {i \in BaseStart(path)..Len(path) : path[i] \in chars}
  IN IF at = {} THEN path
     ELSE SubSeq(path, 1, (CHOOSE i \in at : \A j \in at : i <= j) - 1)

\* the key as stated: everything from the last '-' of the base name on is removed
KeyLastDash(path) == CutAtLast(path, {Ascii["-"]})

\* the key of the code: everything from the first '-' or '.' of the base name on
KeyFirstDashOrDot(path) == CutAtFirst(path, {Ascii["-"], Ascii["."]})

\* the files a run analyses when the metadata of a path is the .json at Key(path)
KeptWith(Key(_)) ==
  LET rec(f) == JsonOnDisk(Key(files_pgn[f]))
      sprt(f) == rec(f).found /\ rec(f).sprt = <<TRUE>>
      book(f) == /\ rec(f).found /\ rec(f).book # <<>>
                 /\ (regex_match(rec(f).book[1], basic_regex(opt.regex_book)))
                      # opt.match_book_invert
  IN {f \in DOMAIN files_pgn :
        (opt.sprt_only => sprt(f)) /\ (opt.regex_book # "" => book(f))}

\* a pool thread is reading the games of a file
Reading(w) == pc[w] \notin {"idle", "file", "exited"}

\* the three users of the key agree with Key: get_metadata tries the .json of
\* Key(path) for every path and no other; the files handed to the pool are the
\* files the filters keep by the record at Key(path); under --fixFEN a file is
\* read only if the record at Key(path) gives a move counter
KeyIs(Key(_)) ==
  /\ mainpc \in {"process", "done"}
       => /\ Range(probes) = {Key(files_pgn[f]) : f \in DOMAIN files_pgn}
          /\ Range(Flatten(files_chunked)) = KeptWith(Key)
          /\ Range(Flatten(queue)) \subseteq KeptWith(Key)
          /\ \A w \in Workers : Range(task[w]) \subseteq KeptWith(Key)
  /\ mainpc = "done" => total_files = Cardinality(KeptWith(Key))
  /\ \A w \in Workers :
       opt.fix_fens /\ Reading(w)
         => ~MetadataError(JsonOnDisk(Key(files_pgn[par[w].file])))

\* C27 as stated: the metadata key of a path is the path with everything from
\* the last '-' of the base name on removed
C27_AsClaimed == KeyIs(KeyLastDash)

\* C27: in get_metadata, in the file filters and in the --fixFEN lookup the
\* metadata key of a path is the path with everything from the first '-' or '.'
\* of its base name on removed
C27_MetadataKey == KeyIs(KeyFirstDashOrDot)

\* a --fixFEN run that filtered by metadata has analysed a file whose base name
\* has a '.' before its '-' and one with two '-'
C27_Witness ==
  /\ mainpc = "done" /\ opt.fix_fens /\ opt.sprt_only /\ total_files = 2
  /\ files_pgn = <<Str(<<"d", "/", "a", "-", "b", "-", "0">>),
                   Str(<<"d", "/", "a", ".", "b", "-", "0">>)>>
  /\ probes = <<Str(<<"d", "/", "a">>)>>

(* ------------------------ C26: duplicate tests ------------------------- *)
\* the test id of a path: its base name up to the first '-' or '.'
IdOf(path) == SubSeq(KeyFirstDashOrDot(path), BaseStart(path), Len(KeyFirstDashOrDot(path)))

\* the locations of tests of the list whose id the list has at another location
\* before: the location of file i differs from the first location of its test id
DuplicateLocations ==
  {KeyFirstDashOrDot(files_pgn[i]) : i \in
     {i \in DOMAIN files_pgn :
        \E j \in 1..(i - 1) :
          /\ IdOf(files_pgn[j]) = IdOf(files_pgn[i])
          /\ KeyFirstDashOrDot(files_pgn[j]) # KeyFirstDashOrDot(files_pgn[i])
          /\ \A k \in 1..(j - 1) : IdOf(files_pgn[k]) # IdOf(files_pgn[i])}}

NoRepeats(seq) == \A i, j \in DOMAIN seq : seq[i] = seq[j] => i = j

\* C26: once get_metadata has run: a test id at two locations without
\* --allowDuplicates ends the process with exit code 1 before anything is planned,
\* opened or counted; otherwise each duplicate location is warned about exactly
\* once and the run goes on; in every case no .json that exists is read twice,
\* and without an exit every test with a .json has its record in meta_map
C26_Duplicates ==
  mainpc # "main" =>
    /\ DuplicateLocations # {} /\ ~opt.allow_duplicates
         => mainpc = "exit1" /\ NothingDone /\ ~out_open /\ Len(warned) = 1
    /\ DuplicateLocations = {} \/ opt.allow_duplicates
         => /\ Range(warned) = DuplicateLocations /\ NoRepeats(warned)
            /\ ~opt.fix_fens => mainpc \in {"process", "done"}
            /\ DOMAIN meta_map = {k \in {KeyFirstDashOrDot(files_pgn[i]) : i \in DOMAIN files_pgn} :
                                    JsonOnDisk(k).found}
    /\ \A i, j \in DOMAIN probes :
         probes[i] = probes[j] /\ JsonOnDisk(probes[i]).found => i = j

\* a run with --allowDuplicates is done with one file of test a in d and two in
\* e: one warning for e/a, each .json read once, all three files analysed
C26_Witness ==
  /\ mainpc = "done" /\ opt.allow_duplicates /\ total_files = 3
  /\ files_pgn = <<Str(<<"d", "/", "a", "-", "0">>), Str(<<"e", "/", "a", "-", "0">>),
                   Str(<<"e", "/", "a", "-", "1">>)>>
  /\ warned = <<Str(<<"e", "/", "a">>)>>
  /\ probes = <<Str(<<"d", "/", "a">>), Str(<<"e", "/", "a">>)>>
  /\ DOMAIN meta_map = Range(probes)

(* --------------------------- C25: --fixFEN ----------------------------- *)
\* the text ends with the characters of suffix
EndsWith(text, suffix) ==
  Len(text) >= Len(suffix)
    /\ Sub(text, Len(text) - Len(suffix) + 1, Len(text)) = suffix

\* the book_depth in the .json of the test of the worker's file, <<>> if none
BookDepth(w) == JsonOnDisk(KeyFirstDashOrDot(files_pgn[par[w].file])).book_depth

\* the text that is parsed for a FEN value as the claim states it: under --fixFEN
\* and with a book_depth d a value that ends in " 0 1" has that suffix replaced by
\* " 0 <d+1>", every other value is taken as it is
ParsedAsStated(w, fen) ==
  IF opt.fix_fens /\ BookDepth(w) # <<>> /\ EndsWith(fen, " 0 1")
  THEN Sub(fen, 1, Len(fen) - 4) \o " 0 " \o to_string(BookDepth(w)[1] + 1)
  ELSE fen

\* the worker has read the headers of a game with a FEN tag and no move yet
AtFenStart(w) ==
  /\ pc[w] = "moves" /\ par[w].moves = 0
  /\ \E i \in DOMAIN Game(w).tags : Game(w).tags[i][1] = "FEN"

\* C25: with --fixFEN and a test whose metadata has book_depth d, the start
\* position of a game is parsed from its FEN value with a final " 0 1" replaced
\* by " 0 <d+1>"; every other FEN value, and every FEN value without --fixFEN,
\* is parsed unchanged
C25_FenRewrite ==
  \A w \in Workers :
    AtFenStart(w) =>
      vis[w].board = setFen(NewVisitor.board,
                            ParsedAsStated(w, TagValue(Game(w).tags, "FEN")))

(* ---------------------- C30: total_pos in bounds ----------------------- *)
\* the positions put out so far: the entries of fen_map with --saveCount, the
\* lines written to the output file without
PutOut == IF opt.save_count THEN Cardinality(DOMAIN fen_map) ELSE Len(out_file)

\* no pool thread has a task or can take one
PoolFinished ==
  /\ mainpc \in {"process", "done"} /\ enqueued = Len(files_chunked)
  /\ queue = <<>> /\ \A w \in Workers : pc[w] = "idle"

\* C30: for min_count >= 1, in every state the positions put out are at most
\* total_pos, and total_pos is at most the number of keys whose count is at least
\* min_count; once the pool has finished the three numbers are equal
C30_TotalPosBounds ==
  opt.min_count >= 1 =>
    /\ PutOut <= total_pos
    /\ total_pos <= Cardinality(Popular)
    /\ PoolFinished => PutOut = total_pos /\ total_pos = Cardinality(Popular)

\* two pool threads: one has counted a reported position in total_pos and not yet
\* put it out, the other has brought a second key to min_count = 2 and not yet
\* counted it in total_pos
C30_Witness ==
  /\ opt.min_count = 2 /\ PutOut = 0 /\ total_pos = 1 /\ Cardinality(Popular) = 2
  /\ \E w, x \in Workers : pc[w] \in {"insert", "lock", "write"} /\ pc[x] = "report"

(* ------------------- C28: the result of a run is fixed ------------------ *)
\* a second run over the same corpus is over, --stopEarly not given
BothRunsDone == run = 2 /\ mainpc = "done" /\ ~opt.stop_early

\* the count table and total_pos of the two runs agree
SameCounts == zobrist_map = first.counts /\ total_pos = first.total_pos

\* the output files of the two runs hold the same positions
SamePositions ==
  {l.fen.pos : l \in DOMAIN first.lines} = {l.fen.pos : l \in DOMAIN LineBag(out_file)}

\* the output files of the two runs hold the same lines, each as often
SameLines == LineBag(out_file) = first.lines

(* ---------------------- C29: locks and termination --------------------- *)
\* the files of the chunks that main has still to enqueue, of those in the queue
\* and of those the pool threads have, the file a thread is at included
Pending == Flatten(ToEnqueue) \o Flatten(queue) \o task[1] \o task[2]

\* the pool threads that have counted their file in total_files and have not yet
\* gone on to the next
JustCounted == {w \in Workers : pc[w] \in {"plock", "print"}}

\* process() has returned: every chunk is done, no pool thread has a file left,
\* and total_files is the number of files
Completed ==
  /\ mainpc = "done" /\ queue = <<>>
  /\ \A w \in Workers : pc[w] = "idle" /\ task[w] = <<>>
  /\ total_files = Len(files_pgn)

\* a pool thread holds the mutex exactly in the two places between lock and
\* unlock, where it can always take its step; the count table and fen_map take
\* and release their shard lock within lazy_emplace_l and insert, one step each
LockDiscipline ==
  \A w \in Workers :
    /\ progress_output = w <=> pc[w] \in {"write", "print"}
    /\ pc[w] = "write" => ENABLED Write(w)
    /\ pc[w] = "print" => ENABLED Progress(w)

\* the step of a thread that holds the mutex releases it and uses neither table
HolderStep ==
  \A w \in Workers :
    (progress_output = w /\ pc'[w] # pc[w])
      => progress_output' = 0 /\ zobrist_map' = zobrist_map /\ fen_map' = fen_map

\* while the run is on, main or a pool thread can take a step
NoDeadlock == mainpc \in {"main", "process"} => ENABLED NextLive

\* while the pool works every file of the list is done or in exactly one place:
\* in one chunk of the queue or with one pool thread; total_files counts the
\* files done; process() returns only when all are done
OncePerFile ==
  /\ mainpc = "process"
       => /\ NoRepeats(Pending)
          /\ total_files = Len(files_pgn) - Len(Pending) + Cardinality(JustCounted)
          /\ \A w \in Workers : Reading(w) => par[w].file = Head(task[w])
  /\ mainpc = "done" => Completed

\* C29: no pool thread waits for a lock while it holds one, no state of a run
\* that is on is a deadlock, every file is analysed once by one pool thread, and
\* under fair scheduling the run comes to the state where every chunk is done and
\* total_files is the number of files; only then has process() returned
C29_Terminates ==
  /\ [](LockDiscipline /\ NoDeadlock /\ OncePerFile)
  /\ [][HolderStep]_vars
  /\ <>Completed

\* two pool threads: one holds the mutex to write a line while the other waits
\* for it to print its progress line, a third file still in the queue
C29_Witness ==
  /\ mainpc = "process" /\ Len(queue) = 1
  /\ \E w, x \in Workers : pc[w] = "write" /\ pc[x] = "plock"

(* ----------------------- C31: the early-stop check --------------------- *)
\* the step of worker w ends Analyze::move for a counted position: the move's
\* own step when the report trigger did not fire, the insert or the write when
\* it did
EndsCountedMove(w) ==
  \/ pc[w] = "moves" /\ game_calls'[w] = game_calls[w] + 1 /\ pc'[w] # "report"
  \/ pc[w] \in {"insert", "write"} /\ pc'[w] # pc[w]

\* increment_or_insert returned is_new = true for the position of that move
WasNew(w) == IF pc[w] = "moves" THEN news' # news ELSE loc[w].is_new_entry

\* the game goes on after the move, with retained_plies advanced by one
GoesOn(w) ==
  pc'[w] = "moves" /\ vis'[w].retained_plies = vis[w].retained_plies + 1

\* the early-stop check ends the game at the move: retained_plies stays
StoppedEarly(w) ==
  pc'[w] = "skipped" /\ vis'[w].retained_plies = vis[w].retained_plies

\* count_stop_early is 0 and no move of the game has made a new entry
ZeroAndNoneNew(w) == opt.count_stop_early = Unsigned(0) /\ vis[w].new_entry_count = 0

\* C31 as stated: for every count_stop_early, 0 included, the early-stop check
\* ends a game only on a move whose increment_or_insert returned is_new = true; a
\* move that increments an existing entry never ends the game through that check
\* and always advances retained_plies by one
C31_AsClaimed ==
  [][\A w \in Workers :
       EndsCountedMove(w) => /\ StoppedEarly(w) => WasNew(w)
                             /\ ~WasNew(w) => GoesOn(w)]_vars

\* C31: for count_stop_early >= 1 the early-stop check ends a game only on a move
\* whose increment_or_insert returned is_new = true, and a move that increments an
\* existing entry advances retained_plies by one and the game goes on; with
\* count_stop_early = 0 a move that increments an existing entry ends the game,
\* without advancing retained_plies, exactly when no earlier move of the game
\* made a new entry, and a move that makes a new entry never ends it
C31_EarlyStopCheck ==
  [][\A w \in Workers :
       EndsCountedMove(w) =>
         /\ (StoppedEarly(w) /\ ~WasNew(w)) => ZeroAndNoneNew(w)
         /\ ~WasNew(w) => IF ZeroAndNoneNew(w) THEN StoppedEarly(w) ELSE GoesOn(w)
         /\ WasNew(w) => IF Unsigned(vis[w].new_entry_count + 1) = opt.count_stop_early
                         THEN StoppedEarly(w) ELSE GoesOn(w)
         /\ opt.count_stop_early = Unsigned(0) /\ WasNew(w) => GoesOn(w)]_vars

\* --stopEarly --countStopEarly 0: the first counted move of a game came to a
\* position that was in the table and the game was ended there
C31_Witness ==
  \E w \in Workers :
    /\ opt.count_stop_early = Unsigned(0) /\ pc[w] = "skipped"
    /\ game_calls[w] = 1 /\ vis[w].new_entry_count = 0 /\ vis[w].retained_plies = 0
    /\ par[w].games = 2

===============================================================================
